---------------------------- MODULE Spec2Model ----------------------------
(***************************************************************************)
(* A model of the Half-Life BSP v30 map loader of the Lambda renderer:     *)
(* src/map/bsp.rs (BSP::from_file and its helpers), src/map/bsp30.rs (the  *)
(* on-disk records and their decoders) and src/scene/entity.rs.            *)
(*                                                                         *)
(* A file is a sequence of bytes (0..255).  Offsets are 0-based as in the  *)
(* source; TLA+ sequences are 1-based, so byte `o` of a file f is f[o+1].  *)
(* A Rust panic is an outcome of its own ("panic"), distinct from the Err  *)
(* value a function returns to its caller ("err").                         *)
(***************************************************************************)
EXTENDS Integers, Sequences, FiniteSets, TLC

VARIABLES
    file,       \* the bytes of the .bsp file handed to BSP::from_file
    env,        \* what the load finds around it (see NoEnv)
    pc,         \* the load phase BSP::from_file has completed
    header,     \* the local `header` of from_file (NoHeader before it is read)
    bsp,        \* the BSP value under construction (fields of struct BSP)
    result,     \* "none" (running) | "ok" | "err" | "panic" | "hang" | "abort"
    cause,      \* why from_file ended in err/panic/hang ("" otherwise)
    history,    \* the phases completed so far, in order
    tree,       \* [nodes, leaves]: the arrays find_leaf/count_vis_leaves walk
    point,      \* the position handed to find_leaf
    startNode,  \* the node (or encoded leaf) index handed to the call
    treeOut,    \* the outcome of the tree call ([op |-> "idle"] before)
    visIn,      \* [leaves, vis_lists_len, leaf, bytes]: decompress_vis inputs
    visOut,     \* the outcome of decompress_vis
    entText,    \* the entity text handed to parse_entities (bytes)
    pePos,      \* parse_entities: local `pos`
    peEntities, \* parse_entities: local `entities`
    peState,    \* "idle" | "run" | "done" | "panic"
    peIters,    \* loop iterations of parse_entities started so far
    callIn,     \* the arguments of a function called on its own
    callOut     \* its outcome ([op |-> "idle"] before the call)

loadVars == <<file, env, pc, header, bsp, result, cause, history>>
treeVars == <<tree, point, startNode, treeOut>>
visVars  == <<visIn, visOut>>
entVars  == <<entText, pePos, peEntities, peState, peIters>>
callVars == <<callIn, callOut>>
vars     == <<loadVars, treeVars, visVars, entVars, callVars>>

-----------------------------------------------------------------------------
(* Generic helpers                                                         *)

Range(s) == {s[i] : i \in DOMAIN s}

RECURSIVE SumSeq(_)
SumSeq(s) == IF s = <<>> THEN 0 ELSE s[1] + SumSeq(Tail(s))

RECURSIVE Flatten(_)
Flatten(ss) == IF ss = <<>> THEN <<>> ELSE ss[1] \o Flatten(Tail(ss))

Min2(a, b) == IF a <= b THEN a ELSE b
Max2(a, b) == IF a >= b THEN a ELSE b

\* glm::dot.
Dot(a, b) == a[1] * b[1] + a[2] * b[2] + a[3] * b[3]

\* The elements of a finite set of integers, ascending.
RECURSIVE SortedSeq(_)
SortedSeq(S) ==
    IF S = {} THEN <<>>
    ELSE LET m == CHOOSE x \in S : \A y \in S : x <= y
         IN <<m>> \o SortedSeq(S \ {m})

-----------------------------------------------------------------------------
(* byteorder: fixed-width integer reads.  Every decoder of bsp30.rs sets   *)
(* `type T = BigEndian` and reads through reader.read_xx::<Self::T>().     *)

\* The width in bytes of a field type.
Width(t) == CASE t = "u8" -> 1
              [] t \in {"i16", "u16"} -> 2
              [] t \in {"i32", "u32", "f32"} -> 4

\* Big-endian value of 1, 2 or 4 bytes; signed types in two's complement.
\* An f32 is kept as its 32-bit pattern (read as i32), never interpreted.
BigEndianValue(t, b) ==
    CASE t = "u8"  -> b[1]
      [] t = "u16" -> b[1] * 256 + b[2]
      [] t = "i16" -> (IF b[1] >= 128 THEN b[1] - 256 ELSE b[1]) * 256 + b[2]
      [] t = "u32" -> b[1] * 16777216 + b[2] * 65536 + b[3] * 256 + b[4]
      [] t \in {"i32", "f32"} ->
             (IF b[1] >= 128 THEN b[1] - 256 ELSE b[1]) * 16777216
                + b[2] * 65536 + b[3] * 256 + b[4]

\* The byte order a reader of type T = LittleEndian would use: the same
\* bytes taken in reverse.
LittleEndianValue(t, b) ==
    BigEndianValue(t, [i \in 1..Len(b) |-> b[Len(b) + 1 - i]])

\* reader.read_xx::<BigEndian>() applied to the bytes it consumed.
ReadValue(t, b) == BigEndianValue(t, b)

\* Whether `n` bytes can be read at offset `pos` (read_exact succeeds).
CanRead(f, pos, n) == pos >= 0 /\ pos + n <= Len(f)

\* The field of type t at offset pos (only when CanRead).
ReadField(f, pos, t) == ReadValue(t, SubSeq(f, pos + 1, pos + Width(t)))

\* The bytes a writer of the given byte order stores for value v of type t.
\* In the files generated here an f32 field holds a small whole number,
\* stored like an i32.
EncodeValue(order, t, v) ==
    LET be == CASE Width(t) = 1 -> <<v % 256>>
                [] Width(t) = 2 -> <<(v \div 256) % 256, v % 256>>
                [] Width(t) = 4 -> <<(v \div 16777216) % 256, (v \div 65536) % 256,
                                     (v \div 256) % 256, v % 256>>
    IN IF order = "BE" THEN be ELSE [i \in 1..Len(be) |-> be[Len(be) + 1 - i]]

EncodeRecord(order, layout, vals) ==
    Flatten([i \in 1..Len(layout) |-> EncodeValue(order, layout[i], vals[i])])

EncodeRecords(order, layout, recs) ==
    Flatten([k \in 1..Len(recs) |-> EncodeRecord(order, layout, recs[k])])

-----------------------------------------------------------------------------
(* bsp30.rs: record layouts, in the order their from_reader reads them.    *)

NodeLayout ==
    <<"u32", "i16", "i16", "i16", "i16", "i16", "i16", "i16", "i16", "u16", "u16">>
LeafLayout ==
    <<"i32", "i32", "i16", "i16", "i16", "i16", "i16", "i16", "u16", "u16",
      "u8", "u8", "u8", "u8">>
MarkSurfaceLayout == <<"u16">>
PlaneLayout == <<"f32", "f32", "f32", "f32", "i32">>
VertexLayout == <<"f32", "f32", "f32">>
EdgeLayout == <<"u16", "u16">>
FaceLayout == <<"u16", "u16", "u32", "u16", "u16", "u8", "u8", "u8", "u8", "u32">>
SurfaceEdgeLayout == <<"i32">>
ClipNodeLayout == <<"i32", "i16", "i16">>
TextureInfoLayout ==
    <<"f32", "f32", "f32", "f32", "f32", "f32", "f32", "f32", "u32", "u32">>
LumpLayout == <<"i32", "i32">>

\* std::mem::size_of of the record type: the sum of its field widths (no
\* record of bsp30.rs needs padding: every field sits on its alignment).
SizeOf(layout) == SumSeq([i \in 1..Len(layout) |-> Width(layout[i])])

\* Offset of field i inside a record.
FieldOffset(layout, i) == SumSeq([j \in 1..(i - 1) |-> Width(layout[j])])

\* <T>::from_reader at offset pos: the field values in reading order.  Every
\* read is followed by .unwrap(), so a short read is a panic, not an Err.
from_reader(f, pos, layout) ==
    IF CanRead(f, pos, SizeOf(layout))
    THEN [kind |-> "ok",
          vals |-> [i \in 1..Len(layout) |->
                      ReadField(f, pos + FieldOffset(layout, i), layout[i])]]
    ELSE [kind |-> "panic", vals |-> <<>>]

\* enum LumpType (bsp30.rs:34-51): the index of each lump in Header::lump.
LumpEntities == 0
LumpPlanes == 1
LumpTextures == 2
LumpVertexes == 3
LumpVisibility == 4
LumpNodes == 5
LumpTexinfo == 6
LumpFaces == 7
LumpLighting == 8
LumpClipNodes == 9
LumpLeaves == 10
LumpMarkSurfaces == 11
LumpEdges == 12
LumpSurfaceEdges == 13
LumpModels == 14
HeaderLumps == 15

\* enum ContentType (bsp30.rs:53-69), the two values the loader tests.
ContentsEmpty == -1
ContentsSolid == -2

\* The version BSP::from_file accepts.
BspVersion == 30

NoHeader == [version |-> -1, lump |-> <<>>]

\* The surroundings of a load: whether the map file can be opened, the WAD
\* archives that can, and whether the build checks integer overflow.
NoEnv == [exists |-> FALSE, wads |-> <<>>, overflow_checks |-> FALSE]

\* Header::from_reader: version, then HeaderLumps Lump records (offset, length).
Header_from_reader(f) ==
    LET n == Width("i32") + HeaderLumps * SizeOf(LumpLayout) IN
    IF CanRead(f, 0, n)
    THEN [kind |-> "ok",
          header |->
            [version |-> ReadField(f, 0, "i32"),
             lump |-> [i \in 1..HeaderLumps |->
                LET r == from_reader(f, Width("i32") + (i - 1) * SizeOf(LumpLayout),
                                     LumpLayout).vals
                IN [offset |-> r[1], length |-> r[2]]]]]
    ELSE [kind |-> "panic", header |-> NoHeader]

\* header.lump[t as usize]
LumpOf(h, t) == h.lump[t + 1]


\* bsp30.rs struct views of the decoded field values.
Node(v) == [plane_index |-> v[1], child_index |-> <<v[2], v[3]>>,
            lower |-> <<v[4], v[5], v[6]>>, upper |-> <<v[7], v[8], v[9]>>,
            first_face |-> v[10], last_face |-> v[11]]
Leaf(v) == [content |-> v[1], vis_offset |-> v[2],
            lower |-> <<v[3], v[4], v[5]>>, upper |-> <<v[6], v[7], v[8]>>,
            first_mark_surface |-> v[9], mark_surface_count |-> v[10],
            ambient_levels |-> <<v[11], v[12], v[13], v[14]>>]
Face(v) == [plane_index |-> v[1], plane_size |-> v[2], first_edge_index |-> v[3],
            edge_count |-> v[4], texture_info |-> v[5],
            styles |-> <<v[6], v[7], v[8], v[9]>>, lightmap_offset |-> v[10]]
Edge(v) == [vertex_index |-> <<v[1], v[2]>>]
Plane(v) == [normal |-> <<v[1], v[2], v[3]>>, dist |-> v[4], type |-> v[5]]
ClipNode(v) == [plane_index |-> v[1], child_index |-> <<v[2], v[3]>>]
TextureInfo(v) == [s |-> <<v[1], v[2], v[3]>>, s_shift |-> v[4],
                   t |-> <<v[5], v[6], v[7]>>, t_shift |-> v[8],
                   mip_tex_index |-> v[9], flags |-> v[10]]
Scalar(v) == v[1]
Vertex(v) == <<v[1], v[2], v[3]>>

\* The struct view of a layout's values.
View(name, v) ==
    CASE name = "nodes" -> Node(v)
      [] name = "leaves" -> Leaf(v)
      [] name = "faces" -> Face(v)
      [] name = "edges" -> Edge(v)
      [] name = "planes" -> Plane(v)
      [] name = "clip_nodes" -> ClipNode(v)
      [] name = "texture_infos" -> TextureInfo(v)
      [] name = "vertices" -> Vertex(v)
      [] name \in {"mark_surfaces", "surface_edges"} -> Scalar(v)

-----------------------------------------------------------------------------
(* scene/entity.rs and BSP::parse_entities.  A Rust String is its UTF-8    *)
(* bytes and str::find returns byte offsets, so text is a byte sequence.   *)

LBrace == 123
RBrace == 125
Quote == 34

\* s[pos..].find(ch): the offset, relative to pos, of the first ch at or
\* after byte offset pos; -1 stands for None.
Find(s, pos, ch) ==
    LET hits == {i \in (pos + 1)..Len(s) : s[i] = ch}
    IN IF hits = {} THEN -1
       ELSE (CHOOSE i \in hits : \A j \in hits : i <= j) - 1 - pos

\* &s[a..b] as a byte sequence (a <= b <= len checked by the caller).
Slice(s, a, b) == SubSeq(s, a + 1, b)

\* HashMap::insert on a map kept as a set of <<key, value>> pairs.
MapInsert(m, k, v) == {p \in m : p[1] # k} \cup {<<k, v>>}

\* Entity::find_property: the value stored for `name` (NoValue for None).
NoValue == <<-1>>
find_property(entity, name) ==
    IF \E p \in entity : p[1] = name
    THEN (CHOOSE p \in entity : p[1] = name)[2]
    ELSE NoValue

\* Entity::new, the loop of entity.rs:15-34 from local `pos` with the
\* properties read so far.  Each .unwrap() on a None is a panic.
RECURSIVE EntityLoop(_, _, _)
EntityLoop(s, pos, props) ==
    IF pos > Len(s) THEN [kind |-> "ok", properties |-> props]
    ELSE
    LET q1 == Find(s, pos, Quote) IN
    IF q1 = -1 THEN [kind |-> "ok", properties |-> props]
    ELSE
    LET p1 == pos + q1 + 1
        e1 == Find(s, p1, Quote)
    IN
    IF e1 = -1 THEN [kind |-> "panic", properties |-> props]
    ELSE
    LET name == Slice(s, p1, p1 + e1)
        p2 == p1 + e1 + 1
        q2 == Find(s, p2, Quote)
    IN
    IF q2 = -1 THEN [kind |-> "panic", properties |-> props]
    ELSE
    LET p3 == p2 + q2 + 1
        e2 == Find(s, p3, Quote)
    IN
    IF e2 = -1 THEN [kind |-> "panic", properties |-> props]
    ELSE EntityLoop(s, p3 + e2 + 1, MapInsert(props, name, Slice(s, p3, p3 + e2)))

Entity_new(s) == EntityLoop(s, 0, {})

\* The end of the slice parse_entities hands to Entity::new (bsp.rs:767).
BlockEnd(pos, end) == pos + end - 1

\* bsp.rs:762-765: log and `continue`; `pos` stays on the opening brace.
OnMissingBrace(pos, ents) == [state |-> "run", pos |-> pos, entities |-> ents]

\* One iteration of the loop of parse_entities (bsp.rs:755-769) from local
\* `pos` and `entities`: the locals after it, and whether the loop goes on.
PeIterate(text, pos0, ents) ==
    LET o == Find(text, pos0, LBrace) IN
    IF o = -1 THEN [state |-> "done", pos |-> pos0, entities |-> ents]
    ELSE
    LET pos == pos0 + o
        end == Find(text, pos, RBrace)
    IN
    IF end = -1 THEN OnMissingBrace(pos, ents)
    ELSE IF pos + 1 > BlockEnd(pos, end)
    THEN [state |-> "panic", pos |-> pos, entities |-> ents]
    ELSE
    LET e == Entity_new(Slice(text, pos + 1, BlockEnd(pos, end))) IN
    IF e.kind = "panic" THEN [state |-> "panic", pos |-> pos, entities |-> ents]
    ELSE [state |-> "run", pos |-> pos + end + 1,
          entities |-> Append(ents, e.properties)]

\* parse_entities run to its end: "ok" with the entities returned, "panic",
\* or "hang" when an iteration leaves `pos` and `entities` as they were (the
\* loop then repeats that iteration forever).
RECURSIVE PeRun(_, _, _)
PeRun(text, pos, ents) ==
    LET r == PeIterate(text, pos, ents) IN
    CASE r.state = "done" -> [kind |-> "ok", entities |-> r.entities]
      [] r.state = "panic" -> [kind |-> "panic", entities |-> <<>>]
      [] r.state = "run" /\ r.pos = pos /\ r.entities = ents ->
            [kind |-> "hang", entities |-> <<>>]
      [] OTHER -> PeRun(text, r.pos, r.entities)

parse_entities(text) == PeRun(text, 0, <<>>)

-----------------------------------------------------------------------------
(* BSP::from_file (bsp.rs:135-311), phase by phase.                        *)

\* The BSP value of bsp.rs:154-181: every collection empty.  (Its header
\* field is the variable `header`.)
EmptyBsp ==
    [vertices |-> <<>>, edges |-> <<>>, surface_edges |-> <<>>, nodes |-> <<>>,
     leaves |-> <<>>, mark_surfaces |-> <<>>, planes |-> <<>>, faces |-> <<>>,
     clip_nodes |-> <<>>, texture_header |-> [mip_texture_count |-> 0],
     mip_textures |-> <<>>, mip_texture_offsets |-> <<>>, texture_infos |-> <<>>,
     face_tex_coords |-> <<>>, entities |-> <<>>, brush_entities |-> <<>>,
     special_entities |-> <<>>, wad_files |-> <<>>, decal_wads |-> <<>>,
     m_decals |-> <<>>, vis_lists |-> <<>>, m_textures |-> <<>>,
     m_lightmaps |-> <<>>, hull_0_clip_nodes |-> <<>>, models |-> <<>>]

\* Mutant of VersionAccepted: any version up to 30 passes.
VersionAcceptedUpTo(version) == version <= BspVersion

\* bsp.rs:148: the version test.
VersionAccepted(version) == ~(version # BspVersion)

\* Mutant of RecordCount: the last record of a lump is left out.
RecordCountWithoutLast(length, size) ==
    IF length \div size > 0 THEN length \div size - 1 ELSE length \div size

\* bsp.rs:185-187: the record count of a lump, `length as usize / size_of`.
RecordCount(length, size) == length \div size

\* The macro bsp_comp_init (bsp.rs:183-193) for one lump: with_capacity,
\* seek, then `count` from_reader calls.  A negative length cast to usize
\* overflows the capacity (panic); a negative offset cast to u64 cannot be
\* sought to, the one failure `?` hands back as Err; a short read panics
\* inside from_reader.
bsp_comp_init(f, h, name, lump_type, layout) ==
    LET lump == LumpOf(h, lump_type)
        size == SizeOf(layout)
        count == RecordCount(lump.length, size)
    IN
    IF lump.length < 0 THEN [kind |-> "panic", cause |-> "capacity", recs |-> <<>>]
    ELSE IF lump.offset < 0 THEN [kind |-> "err", cause |-> "seek", recs |-> <<>>]
    ELSE IF ~CanRead(f, lump.offset, count * size)
    THEN [kind |-> "panic", cause |-> "eof", recs |-> <<>>]
    ELSE [kind |-> "ok", cause |-> "",
          recs |-> [k \in 1..count |->
                      View(name, from_reader(f, lump.offset + (k - 1) * size,
                                             layout).vals)]]

\* The nine lumps of bsp.rs:194-202, in the order they are read.
RecordLumps ==
    <<[name |-> "nodes", type |-> LumpNodes, layout |-> NodeLayout],
      [name |-> "leaves", type |-> LumpLeaves, layout |-> LeafLayout],
      [name |-> "mark_surfaces", type |-> LumpMarkSurfaces, layout |-> MarkSurfaceLayout],
      [name |-> "faces", type |-> LumpFaces, layout |-> FaceLayout],
      [name |-> "clip_nodes", type |-> LumpClipNodes, layout |-> ClipNodeLayout],
      [name |-> "surface_edges", type |-> LumpSurfaceEdges, layout |-> SurfaceEdgeLayout],
      [name |-> "edges", type |-> LumpEdges, layout |-> EdgeLayout],
      [name |-> "vertices", type |-> LumpVertexes, layout |-> VertexLayout],
      [name |-> "planes", type |-> LumpPlanes, layout |-> PlaneLayout]>>

\* bsp.rs:194-202 as a whole: the outcome of each lump, and the first that
\* does not succeed (0 when all do); lumps after it are never read.
ReadRecordLumps(f, h) ==
    LET out == [i \in 1..Len(RecordLumps) |->
                  bsp_comp_init(f, h, RecordLumps[i].name, RecordLumps[i].type,
                                RecordLumps[i].layout)]
        bad == {i \in 1..Len(RecordLumps) : out[i].kind # "ok"}
    IN [out |-> out,
        failed |-> IF bad = {} THEN 0 ELSE CHOOSE i \in bad : \A j \in bad : i <= j]

\* bsp.rs:204-209: the entity bytes, then String::from_utf8(..).unwrap() and
\* parse_entities.  Every read_u8 is unwrapped.  The texts considered are
\* ASCII; a byte above 127 is taken as invalid UTF-8.
ReadEntities(f, h) ==
    LET lump == LumpOf(h, LumpEntities) IN
    IF lump.length < 0 THEN [kind |-> "panic", cause |-> "capacity", entities |-> <<>>]
    ELSE IF lump.offset < 0 THEN [kind |-> "err", cause |-> "seek", entities |-> <<>>]
    ELSE IF ~CanRead(f, lump.offset, lump.length)
    THEN [kind |-> "panic", cause |-> "eof", entities |-> <<>>]
    ELSE
    LET text == Slice(f, lump.offset, lump.offset + lump.length) IN
    IF \E i \in 1..Len(text) : text[i] > 127
    THEN [kind |-> "panic", cause |-> "utf8", entities |-> <<>>]
    ELSE LET r == parse_entities(text)
         IN [kind |-> r.kind,
             cause |-> IF r.kind = "ok" THEN "" ELSE "entities",
             entities |-> r.entities]

-----------------------------------------------------------------------------
(* Idle values of the variable groups a specification does not exercise.   *)

LoadIdle ==
    /\ file = <<>> /\ env = NoEnv /\ pc = "Idle" /\ header = NoHeader /\ bsp = EmptyBsp
    /\ result = "none" /\ cause = "" /\ history = <<>>
TreeIdle ==
    /\ tree = <<>> /\ point = <<>> /\ startNode = 0 /\ treeOut = [op |-> "idle"]
VisIdle == visIn = <<>> /\ visOut = [kind |-> "idle"]
EntIdle ==
    /\ entText = <<>> /\ pePos = 0 /\ peEntities = <<>> /\ peState = "idle"
    /\ peIters = 0
CallIdle == callIn = <<>> /\ callOut = [op |-> "idle"]

-----------------------------------------------------------------------------
(* SpecEnt: BSP::parse_entities, one loop iteration per step, on every     *)
(* text of at most MaxTokens tokens.                                       *)

MaxTokens == 6

TokLB == <<LBrace>>
TokRB == <<RBrace>>
TokQA == <<Quote, 97, Quote>>
TokQB == <<Quote, 98, Quote>>
TokSP == <<32>>
Tokens == {TokLB, TokRB, TokQA, TokQB, TokSP}

Texts == {Flatten(ts) : ts \in UNION {[1..n -> Tokens] : n \in 0..MaxTokens}}

\* More iterations than a terminating run can need (one per opening brace
\* and the one that finds none).
PeIterCap == MaxTokens + 3

InitEnt ==
    /\ entText \in Texts
    /\ pePos = 0 /\ peEntities = <<>> /\ peState = "run" /\ peIters = 0
    /\ LoadIdle /\ TreeIdle /\ VisIdle
    /\ CallIdle

ParseEntitiesStep ==
    /\ peState = "run"
    /\ peIters < PeIterCap
    /\ LET r == PeIterate(entText, pePos, peEntities) IN
         /\ pePos' = r.pos
         /\ peEntities' = r.entities
         /\ peState' = r.state
    /\ peIters' = peIters + 1
    /\ UNCHANGED <<entText, loadVars, treeVars, visVars, callVars>>

NextEnt == ParseEntitiesStep

SpecEnt == InitEnt /\ [][NextEnt]_vars

(* What the entity text means, read off the text as a whole. *)

\* The offsets (0-based) of byte ch in text, ascending.

Offsets(text, ch) == SortedSeq({i - 1 : i \in {j \in 1..Len(text) : text[j] = ch}})

CountOf(text, ch) == Cardinality({j \in 1..Len(text) : text[j] = ch})

\* Braces pair up in order, `{` before `}`, never nested; quotes occur only
\* inside blocks and each block holds whole "key" "value" pairs.
WellFormed(text) ==
    LET ob == Offsets(text, LBrace)
        cb == Offsets(text, RBrace)
        qs == Offsets(text, Quote)
    IN /\ Len(ob) = Len(cb)
       /\ \A k \in 1..Len(ob) :
            /\ ob[k] < cb[k]
            /\ k < Len(ob) => cb[k] < ob[k + 1]
            /\ Cardinality({i \in 1..Len(qs) : ob[k] < qs[i] /\ qs[i] < cb[k]}) % 4 = 0
       /\ \A i \in 1..Len(qs) : \E k \in 1..Len(ob) : ob[k] < qs[i] /\ qs[i] < cb[k]

\* The properties written between offsets a and b: the m-th pair maps the
\* text between quotes 4m-3 and 4m-2 to the text between quotes 4m-1 and 4m;
\* a later pair replaces an earlier one with the same key.
BlockProperties(text, a, b) ==
    LET qs == SortedSeq({q \in Range(Offsets(text, Quote)) : a < q /\ q < b})
        n == Len(qs) \div 4
        key(m) == Slice(text, qs[4 * m - 3] + 1, qs[4 * m - 2])
        val(m) == Slice(text, qs[4 * m - 1] + 1, qs[4 * m])
    IN {<<key(m), val(m)>> : m \in {x \in 1..n : \A y \in (x + 1)..n : key(y) # key(x)}}

\* One entity per block, in text order.
ExpectedEntities(text) ==
    LET ob == Offsets(text, LBrace)
        cb == Offsets(text, RBrace)
    IN [k \in 1..Len(ob) |-> BlockProperties(text, ob[k], cb[k])]

\* C9: for every (well-formed) entity text parse_entities returns exactly
\* one Entity per {...} block, in text order, holding exactly the quoted
\* key/value pairs of its block, the last value winning for a repeated key;
\* also for `{}` and for a block whose closing quote is followed by `}`.
C9_OneEntityPerBlock ==
    (WellFormed(entText) /\ (peState # "run" \/ peIters = PeIterCap))
        => /\ peState = "done"
           /\ peEntities = ExpectedEntities(entText)

\* The text up to, not including, the first opening brace that no closing
\* brace follows.
RECURSIVE LastOf(_)
LastOf(s) == s[Len(s)]
Unterminated(text) ==
    LET ob == Offsets(text, LBrace)
        cb == Offsets(text, RBrace)
    IN ob # <<>> /\ (cb = <<>> \/ LastOf(cb) < LastOf(ob))
CompletePart(text) ==
    LET cb == Offsets(text, RBrace)
        open == {o \in Range(Offsets(text, LBrace)) : cb = <<>> \/ LastOf(cb) < o}
        first == CHOOSE o \in open : \A x \in open : o <= x
    IN Slice(text, 0, first)

\* C10: parse_entities terminates on every input: it needs at most one
\* iteration per opening brace and one more to find there is none left; and
\* when a `{` has no later `}` it returns the entities of the complete
\* blocks before it.
C10_TerminatesOnUnterminated ==
    /\ peIters <= CountOf(entText, LBrace) + 1
    /\ peIters = CountOf(entText, LBrace) + 1 => peState # "run"
    /\ (Unterminated(entText) /\ WellFormed(CompletePart(entText))
            /\ peState \notin {"run", "panic"})
          => peEntities = ExpectedEntities(CompletePart(entText))

-----------------------------------------------------------------------------
(* util/mathutil.rs and the tree walks of bsp.rs.  Coordinates are the     *)
(* integers an i16 box corner holds; `as f32` is exact on them.            *)

\* Mutant of point_in_box: only the corners in the order (min, max).
point_in_box_ordered(p, min, max) ==
    /\ min[1] <= p[1] /\ p[1] <= max[1]
    /\ min[2] <= p[2] /\ p[2] <= max[2]
    /\ min[3] <= p[3] /\ p[3] <= max[3]

\* point_in_box (mathutil.rs:3-6)
point_in_box(p, min, max) ==
    \/ /\ min[1] <= p[1] /\ p[1] <= max[1]
       /\ min[2] <= p[2] /\ p[2] <= max[2]
       /\ min[3] <= p[3] /\ p[3] <= max[3]
    \/ /\ min[1] >= p[1] /\ p[1] >= max[1]
       /\ min[2] >= p[2] /\ p[2] >= max[2]
       /\ min[3] >= p[3] /\ p[3] >= max[3]

\* !x on a signed integer: the bit complement, -x - 1.
BitNot(x) == -x - 1

\* v[i as usize] is in bounds.  A negative i16 cast to usize is above any
\* length, so a negative index is out of bounds (a panic).
InBounds(v, i) == 0 <= i /\ i < Len(v)

\* The condition that opens the leaf branch of find_leaf (bsp.rs:824).
LeafGuard(child_index) == BitNot(child_index) # 0

\* BSP::find_leaf (bsp.rs:816-833) from child k of `node` on.  `depth`
\* counts the recursion: beyond Len(nodes) a node repeats on the path and
\* the recursion never ends ("overflow": the stack runs out).
RECURSIVE FindLeafFrom(_, _, _, _, _, _)
FindLeafFrom(nodes, leaves, pos, node, k, depth) ==
    IF ~InBounds(nodes, node) THEN [kind |-> "panic", leaf |-> 0]
    ELSE IF k > 2 THEN [kind |-> "none", leaf |-> 0]
    ELSE
    LET child_index == nodes[node + 1].child_index[k] IN
    IF child_index >= 0 /\ ~InBounds(nodes, child_index)
    THEN [kind |-> "panic", leaf |-> 0]
    ELSE IF child_index >= 0
            /\ point_in_box(pos, nodes[child_index + 1].lower,
                            nodes[child_index + 1].upper)
    THEN IF depth >= Len(nodes) THEN [kind |-> "overflow", leaf |-> 0]
         ELSE FindLeafFrom(nodes, leaves, pos, child_index, 1, depth + 1)
    ELSE IF LeafGuard(child_index)
    THEN IF ~InBounds(leaves, BitNot(child_index))
         THEN [kind |-> "panic", leaf |-> 0]
         ELSE IF point_in_box(pos, leaves[BitNot(child_index) + 1].lower,
                              leaves[BitNot(child_index) + 1].upper)
         THEN [kind |-> "some", leaf |-> BitNot(child_index)]
         ELSE FindLeafFrom(nodes, leaves, pos, node, k + 1, depth)
    ELSE FindLeafFrom(nodes, leaves, pos, node, k + 1, depth)

find_leaf(nodes, leaves, pos, node) == FindLeafFrom(nodes, leaves, pos, node, 1, 0)

\* Mutant of IsCountedLeaf: the content of the leaf is not looked at.
IsCountedLeafAnyContent(leaves, i_node) == ~(i_node = -1)

\* Whether the leaf encoded by a negative i_node counts (bsp.rs:775).
IsCountedLeaf(leaves, i_node) ==
    ~(i_node = -1 \/ leaves[BitNot(i_node) + 1].content = ContentsSolid)

\* BSP::count_vis_leaves (bsp.rs:773-783).
RECURSIVE CountVisLeaves(_, _, _, _)
CountVisLeaves(nodes, leaves, i_node, depth) ==
    IF i_node < 0
    THEN IF i_node # -1 /\ ~InBounds(leaves, BitNot(i_node))
         THEN [kind |-> "panic", n |-> 0]
         ELSE [kind |-> "ok", n |-> IF IsCountedLeaf(leaves, i_node) THEN 1 ELSE 0]
    ELSE IF ~InBounds(nodes, i_node) THEN [kind |-> "panic", n |-> 0]
    ELSE IF depth >= Len(nodes) THEN [kind |-> "overflow", n |-> 0]
    ELSE
    LET left == CountVisLeaves(nodes, leaves, nodes[i_node + 1].child_index[1], depth + 1)
    IN IF left.kind # "ok" THEN left
       ELSE LET right == CountVisLeaves(nodes, leaves,
                                        nodes[i_node + 1].child_index[2], depth + 1)
            IN IF right.kind # "ok" THEN right
               ELSE [kind |-> "ok", n |-> left.n + right.n]

count_vis_leaves(nodes, leaves, i_node) == CountVisLeaves(nodes, leaves, i_node, 0)

-----------------------------------------------------------------------------
(* SpecTree: find_leaf and count_vis_leaves on every acyclic node array of *)
(* at most MaxNodes nodes over a fixed leaf array.                         *)

MaxNodes == 2

\* Two boxes, the second with its corners in the other order.
BoxA == [lower |-> <<0, 0, 0>>, upper |-> <<2, 2, 2>>]
BoxB == [lower |-> <<4, 4, 4>>, upper |-> <<3, 3, 3>>]
Boxes == {BoxA, BoxB}

\* A point inside BoxA only, one inside BoxB only, one inside neither.
Points == {<<1, 1, 1>>, <<4, 3, 4>>, <<1, 1, 3>>}

MkLeaf(content, box) ==
    [content |-> content, vis_offset |-> -1, lower |-> box.lower, upper |-> box.upper,
     first_mark_surface |-> 0, mark_surface_count |-> 0,
     ambient_levels |-> <<0, 0, 0, 0>>]

MkNode(children, box) ==
    [plane_index |-> 0, child_index |-> children, lower |-> box.lower,
     upper |-> box.upper, first_face |-> 0, last_face |-> 0]

\* Leaf 0 is the solid outside leaf; then an empty and a solid leaf in each box.
TreeLeaves ==
    <<MkLeaf(ContentsSolid, BoxA), MkLeaf(ContentsEmpty, BoxA),
      MkLeaf(ContentsSolid, BoxB), MkLeaf(ContentsEmpty, BoxB),
      MkLeaf(ContentsSolid, BoxA)>>

\* The children a node at index i of n may name: an encoded leaf or a later
\* node (so that no node is reachable from itself).
ChildChoices(i, n) == {BitNot(l) : l \in 0..(Len(TreeLeaves) - 1)} \cup ((i + 1)..(n - 1))

NodeArrays ==
    UNION {
      {ns \in [1..n -> {MkNode(<<a, b>>, box) :
                          a \in ChildChoices(0, n), b \in ChildChoices(0, n),
                          box \in Boxes}] :
          \A i \in 1..n :
             /\ ns[i].child_index[1] \in ChildChoices(i - 1, n)
             /\ ns[i].child_index[2] \in ChildChoices(i - 1, n)
             /\ (i = 1 => ns[i].lower = BoxA.lower)}
      : n \in 1..MaxNodes}

InitTree ==
    /\ tree \in {[nodes |-> ns, leaves |-> TreeLeaves] : ns \in NodeArrays}
    /\ point = <<>> /\ startNode = 0 /\ treeOut = [op |-> "idle"]
    /\ LoadIdle /\ VisIdle /\ EntIdle
    /\ CallIdle

\* self.find_leaf(pos, node) on a node of the array.
CallFindLeaf ==
    /\ treeOut.op = "idle"
    /\ \E p \in Points, n \in 0..(Len(tree.nodes) - 1) :
         /\ point' = p
         /\ startNode' = n
         /\ treeOut' = [op |-> "find_leaf"] @@ find_leaf(tree.nodes, tree.leaves, p, n)
    /\ UNCHANGED <<tree, loadVars, visVars, entVars, callVars>>

\* self.count_vis_leaves(i_node) on a node or an encoded leaf.
CallCountVisLeaves ==
    /\ treeOut.op = "idle"
    /\ \E n \in (-Len(tree.leaves))..(Len(tree.nodes) - 1) :
         /\ startNode' = n
         /\ treeOut' = [op |-> "count_vis_leaves"]
                          @@ count_vis_leaves(tree.nodes, tree.leaves, n)
    /\ UNCHANGED <<tree, point, loadVars, visVars, entVars, callVars>>

NextTree == CallFindLeaf \/ CallCountVisLeaves

SpecTree == InitTree /\ [][NextTree]_vars

(* What the walks are to compute, stated on the paths of the tree. *)

\* The child reference reached from reference n by the turns of `path`
\* (1: first child, 2: second); a path cannot continue below a leaf.
RECURSIVE Follow(_, _, _)
Follow(nodes, n, path) ==
    IF path = <<>> THEN [ok |-> TRUE, ref |-> n]
    ELSE IF n < 0 THEN [ok |-> FALSE, ref |-> n]
    ELSE Follow(nodes, nodes[n + 1].child_index[path[1]], Tail(path))

PathsBelow(nodes) == UNION {[1..d -> {1, 2}] : d \in 0..Len(nodes)}

\* The paths from n that end on a leaf reference.
LeafPaths(nodes, n) ==
    {path \in PathsBelow(nodes) :
        Follow(nodes, n, path).ok /\ Follow(nodes, n, path).ref < 0}

\* The box of the node or leaf a child reference names.
RefBox(t, ref) ==
    IF ref >= 0 THEN [lower |-> t.nodes[ref + 1].lower, upper |-> t.nodes[ref + 1].upper]
    ELSE [lower |-> t.leaves[BitNot(ref) + 1].lower,
          upper |-> t.leaves[BitNot(ref) + 1].upper]

Contains(t, ref, p) == point_in_box(p, RefBox(t, ref).lower, RefBox(t, ref).upper)

\* C6: when find_leaf(point, n) returns Some(l), l is the decoded index of a
\* leaf reached from n through children whose boxes all contain the point,
\* the leaf's box included; when the box of neither child of n contains the
\* point, find_leaf returns None.
C6_FindLeaf ==
    treeOut.op = "find_leaf" =>
      /\ treeOut.kind = "some" =>
           \E path \in LeafPaths(tree.nodes, startNode) :
              /\ BitNot(Follow(tree.nodes, startNode, path).ref) = treeOut.leaf
              /\ \A d \in 1..Len(path) :
                    Contains(tree, Follow(tree.nodes, startNode, SubSeq(path, 1, d)).ref,
                             point)
      /\ (\A k \in {1, 2} :
             ~Contains(tree, tree.nodes[startNode + 1].child_index[k], point))
           => treeOut.kind = "none"

\* C7: count_vis_leaves(n) is the number of leaf references below n (n
\* itself when it is negative) that are not -1 and whose leaf is not solid.
C7_CountVisLeaves ==
    treeOut.op = "count_vis_leaves" =>
      /\ treeOut.kind = "ok"
      /\ treeOut.n =
           Cardinality({path \in LeafPaths(tree.nodes, startNode) :
              LET ref == Follow(tree.nodes, startNode, path).ref
              IN ref # -1 /\ tree.leaves[BitNot(ref) + 1].content # ContentsSolid})

\* The count of a root whose subtree holds one counted leaf next to a solid
\* leaf and the -1 sentinel.
C7_Witness ==
    /\ treeOut.op = "count_vis_leaves"
    /\ startNode = 0
    /\ Len(tree.nodes) = 2
    /\ tree.nodes[1].child_index = <<1, -3>>
    /\ tree.nodes[2].child_index = <<-2, -1>>
    /\ treeOut.n = 1

-----------------------------------------------------------------------------
(* BSP::decompress_vis (bsp.rs:785-805).  A BitSet is the set of its bits; *)
(* BitSet::len() is the number of bits set.                                *)

\* More iterations of the outer loop than any terminating call makes.
VisIterCap == 4

\* The while loop of bsp.rs:790-803 from locals `pvs` and `read`; `row` and
\* the buffer length do not change.  Every insert is of bit 0.
RECURSIVE VisLoop(_, _, _, _, _)
VisLoop(pvs, read, row, buflen, iters) ==
    IF ~(Cardinality(pvs) \div 8 < row) THEN [kind |-> "ok", pvs |-> pvs]
    ELSE IF iters >= VisIterCap THEN [kind |-> "hang", pvs |-> pvs]
    ELSE IF read > buflen
         THEN VisLoop(pvs \cup {0}, read + 1, row, buflen, iters + 1)
         ELSE VisLoop(pvs \cup {0}, read + 2, row, buflen, iters + 1)

\* bsp.rs:789: the bytes a row is to cover.
VisRow(leaves, vis_lists_len) == (vis_lists_len + 7) \div 8

decompress_vis(leaves, vis_lists_len, leaf, compresed_vis) ==
    IF Len(leaves) = 0 \/ ~InBounds(leaves, leaf)
    THEN [kind |-> "panic", pvs |-> {}]
    ELSE VisLoop({}, leaves[leaf + 1].vis_offset, VisRow(leaves, vis_lists_len),
                 Len(compresed_vis), 0)

-----------------------------------------------------------------------------
(* SpecVis: decompress_vis on every small buffer, for maps of few and of   *)
(* more than eight leaves.  vis_lists is empty whenever it is called: the  *)
(* loader gives it a capacity (bsp.rs:261) and never a length.             *)

MaxVisBytes == 3

VisByteValues == {0, 1, 2, 255}
VisBuffers == UNION {[1..n -> VisByteValues] : n \in 0..MaxVisBytes}

VisLeafCounts == {2, 9}

\* n leaves, all with PVS offset `off`.
VisLeaves(n, off) ==
    [i \in 1..n |-> [MkLeaf(ContentsEmpty, BoxA) EXCEPT !.vis_offset = off]]

InitVis ==
    /\ visIn \in {[leaves |-> VisLeaves(n, off), vis_lists_len |-> 0,
                   leaf |-> 1, bytes |-> b] :
                    n \in VisLeafCounts, off \in 0..MaxVisBytes, b \in VisBuffers}
    /\ visOut = [kind |-> "idle"]
    /\ LoadIdle /\ TreeIdle /\ EntIdle
    /\ CallIdle

CallDecompressVis ==
    /\ visOut.kind = "idle"
    /\ visOut' = decompress_vis(visIn.leaves, visIn.vis_lists_len, visIn.leaf,
                                visIn.bytes)
    /\ UNCHANGED <<visIn, loadVars, treeVars, entVars, callVars>>

NextVis == CallDecompressVis

SpecVis == InitVis /\ [][NextVis]_vars

(* The standard PVS run-length decode. *)

\* Byte i (0-based) of the buffer, zero past its end.
VisByteAt(bytes, i) == IF i < Len(bytes) THEN bytes[i + 1] ELSE 0

\* The decoded bytes from offset i on, `out` being those decoded so far: a
\* non-zero byte is taken as it is, a zero byte and its count N give N zero
\* bytes; past the end of the buffer everything left is zero.
RECURSIVE StdDecode(_, _, _, _)
StdDecode(bytes, i, out, row) ==
    IF Len(out) >= row THEN SubSeq(out, 1, row)
    ELSE IF i >= Len(bytes) THEN StdDecode(bytes, i, Append(out, 0), row)
    ELSE IF bytes[i + 1] # 0 THEN StdDecode(bytes, i + 1, Append(out, bytes[i + 1]), row)
    ELSE StdDecode(bytes, i + 2,
                   out \o [k \in 1..VisByteAt(bytes, i + 1) |-> 0], row)

\* The bits of a byte sequence, bit j of byte k (from 1) being 8 (k-1) + j.
RECURSIVE Pow2(_)
Pow2(j) == IF j = 0 THEN 1 ELSE 2 * Pow2(j - 1)
BitsOf(out) ==
    {8 * (k - 1) + j : k \in 1..Len(out), j \in 0..7} \cap
    {b \in 0..(8 * Len(out)) :
        LET k == b \div 8 + 1 IN k <= Len(out) /\ (out[k] \div Pow2(b % 8)) % 2 = 1}

\* C8: decompress_vis terminates and returns the bits of the standard
\* run-length decode from the leaf's vis_offset, over (leaf count + 7) / 8
\* bytes, bytes past the end of the buffer read as zero.
C8_DecompressVis ==
    visOut.kind # "idle" =>
      /\ visOut.kind = "ok"
      /\ visOut.pvs =
           BitsOf(StdDecode(visIn.bytes, visIn.leaves[visIn.leaf + 1].vis_offset,
                            <<>>, (Len(visIn.leaves) + 7) \div 8))


-----------------------------------------------------------------------------
(* resource.rs read_char_array and bsp30.rs MipTex::from_reader.           *)

MAX_TEXTURE_NAME == 16
MIP_LEVELS == 4

\* read_char_array (resource.rs:9-22) on a slot of `width` bytes at offset
\* pos: bytes are taken one by one; a zero byte is taken and ends the loop.
\* `next` is the stream position afterwards, `chars` the array filled so
\* far (zero where nothing was stored).
RECURSIVE ReadCharsFrom(_, _, _, _, _)
ReadCharsFrom(f, pos, width, i, chars) ==
    IF i >= width
    THEN [kind |-> "ok", chars |-> chars, read_count |-> i, next |-> pos + i]
    ELSE IF ~CanRead(f, pos + i, 1)
    THEN [kind |-> "panic", chars |-> chars, read_count |-> i, next |-> pos + i]
    ELSE IF f[pos + i + 1] = 0
    THEN [kind |-> "ok", chars |-> chars, read_count |-> i, next |-> pos + i + 1]
    ELSE ReadCharsFrom(f, pos, width, i + 1, [chars EXCEPT ![i + 1] = f[pos + i + 1]])

read_char_array(f, pos, width) ==
    ReadCharsFrom(f, pos, width, 0, [k \in 1..width |-> 0])

\* MipTex::from_reader (bsp30.rs:374-394) once the name is read with
\* outcome n: Err when no character was read, then width and height
\* (unwrapped) and MIP_LEVELS offsets (Err on a short read), each from where
\* the stream stands.
MipTexAfterName(f, n) ==
    LET at(k) == n.next + k * Width("u32")
        none == [name |-> n.chars, width |-> 0, height |-> 0, offsets |-> <<>>]
    IN
    IF n.kind = "panic" THEN [kind |-> "panic", after_name |-> n.next, tex |-> none]
    ELSE IF n.read_count = 0 THEN [kind |-> "err", after_name |-> n.next, tex |-> none]
    ELSE IF ~CanRead(f, at(0), 2 * Width("u32"))
    THEN [kind |-> "panic", after_name |-> n.next, tex |-> none]
    ELSE IF ~CanRead(f, at(2), MIP_LEVELS * Width("u32"))
    THEN [kind |-> "err", after_name |-> n.next, tex |-> none]
    ELSE [kind |-> "ok", after_name |-> n.next,
          tex |-> [name |-> n.chars,
                   width |-> ReadField(f, at(0), "u32"),
                   height |-> ReadField(f, at(1), "u32"),
                   offsets |-> [k \in 1..MIP_LEVELS |-> ReadField(f, at(1 + k), "u32")]]]

\* MipTex::from_reader at offset pos: the name through read_char_array.
MipTex_from_reader(f, pos) ==
    MipTexAfterName(f, read_char_array(f, pos, MAX_TEXTURE_NAME))

(* SpecMipTex: MipTex::from_reader on records whose name slot holds a name *)
(* of every length, padded with zeros or followed by other bytes after the *)
(* terminator.                                                             *)

\* Name slots: n letters, a zero if there is room, then the filler byte.
NameSlots ==
    {[k \in 1..MAX_TEXTURE_NAME |->
         IF k <= n THEN 64 + k ELSE IF k = n + 1 THEN 0 ELSE fill] :
       n \in 0..MAX_TEXTURE_NAME, fill \in {0, 90}}

\* The bytes of a MipTex record as the decoder's byte order stores it.
MipTexBytes(slot, width, height, offsets) ==
    slot \o EncodeValue("BE", "u32", width) \o EncodeValue("BE", "u32", height)
         \o Flatten([k \in 1..MIP_LEVELS |-> EncodeValue("BE", "u32", offsets[k])])

InitMipTex ==
    /\ callIn \in {[file |-> [k \in 1..lead |-> 7] \o MipTexBytes(slot, w, h, <<o, 44, 48, 49>>),
                    pos |-> lead] :
                     slot \in NameSlots, w \in {2, 16}, h \in {2, 8}, o \in {0, 40},
                     lead \in {0, 3}}
    /\ callOut = [op |-> "idle"]
    /\ LoadIdle /\ TreeIdle /\ VisIdle /\ EntIdle

CallMipTexFromReader ==
    /\ callOut.op = "idle"
    /\ callOut' = [op |-> "MipTex"] @@ MipTex_from_reader(callIn.file, callIn.pos)
    /\ UNCHANGED <<callIn, loadVars, treeVars, visVars, entVars>>

NextMipTex == CallMipTexFromReader

SpecMipTex == InitMipTex /\ [][NextMipTex]_vars

\* C20: after the name of a MipTex the stream stands MAX_TEXTURE_NAME (16)
\* bytes past the start of the record, wherever the first zero byte of the
\* slot is; the decoded width, height and offsets are the values stored
\* from byte 16 of the record on.
C20_CharArrayKeepsAlignment ==
    callOut.op = "MipTex" =>
       /\ callOut.after_name = callIn.pos + 16
       /\ callOut.kind = "ok" =>
             /\ callOut.tex.width = ReadField(callIn.file, callIn.pos + 16, "u32")
             /\ callOut.tex.height = ReadField(callIn.file, callIn.pos + 20, "u32")
             /\ \A k \in 1..4 :
                   callOut.tex.offsets[k]
                      = ReadField(callIn.file, callIn.pos + 20 + 4 * k, "u32")

-----------------------------------------------------------------------------
(* map/wad.rs: the WAD directory and texture lookup.  A String key is the  *)
(* sequence of its characters; U+FFFD stands for a byte that is not UTF-8. *)

Replacement == 65533

\* String::from_utf8_lossy on bytes that hold no valid multi-byte sequence:
\* every byte above 127 becomes U+FFFD, zero bytes stay.
from_utf8_lossy(bytes) ==
    [k \in 1..Len(bytes) |-> IF bytes[k] < 128 THEN bytes[k] ELSE Replacement]

\* WadHeader::from_reader (wad.rs:25-39): every read is unwrapped.
WadHeader_from_reader(f) ==
    IF CanRead(f, 0, 4 + 2 * Width("i32"))
    THEN [kind |-> "ok", magic |-> SubSeq(f, 1, 4),
          n_dir |-> ReadField(f, 4, "i32"), dir_offset |-> ReadField(f, 8, "i32")]
    ELSE [kind |-> "panic", magic |-> <<>>, n_dir |-> 0, dir_offset |-> 0]

\* The bytes read after the 13 of the fixed fields: at most 1 + 2 + 16.
WadEntryTail == 1 + 2 + MAX_TEXTURE_NAME

\* Bit k (0-based, most significant bit of byte 0 first) of a byte array,
\* as bitter's BigEndianReader hands bits out.
BitAt(bytes, k) == (bytes[(k \div 8) + 1] \div Pow2(7 - (k % 8))) % 2

\* The unsigned value of `n` bits from bit `k` on.
RECURSIVE BitsValue(_, _, _)
BitsValue(bytes, k, n) ==
    IF n = 0 THEN 0 ELSE 2 * BitsValue(bytes, k, n - 1) + BitAt(bytes, k + n - 1)

\* The loop of wad.rs:73-79: name bytes are taken from the bit reader, 8
\* bits each from bit `k` on, until a zero byte.
RECURSIVE EntryNameFrom(_, _, _, _)
EntryNameFrom(bytes, k, i, name) ==
    IF i >= MAX_TEXTURE_NAME \/ BitsValue(bytes, k, 8) = 0 THEN name
    ELSE EntryNameFrom(bytes, k + 8, i + 1,
                       [name EXCEPT ![i + 1] = BitsValue(bytes, k, 8)])

\* WadDirEntry::from_reader (wad.rs:58-88) at offset pos: three 32-bit
\* fields and the type byte, then up to 19 bytes into a zeroed array that
\* a bit reader walks: ONE bit for `compressed`, 16 bits for n_dummy, then
\* the name.
WadDirEntry_from_reader(f, pos) ==
    LET fixed == 3 * Width("i32") + 1
        got == Min2(WadEntryTail, Len(f) - (pos + fixed))
        next_bytes == [k \in 1..WadEntryTail |->
                         IF k <= got THEN f[pos + fixed + k] ELSE 0]
        dummy == BitsValue(next_bytes, 1, 16)
    IN
    IF ~CanRead(f, pos, fixed) \/ got < 3
    THEN [kind |-> "panic", next |-> pos]
    ELSE [kind |-> "ok", next |-> pos + fixed + got,
          n_file_pos |-> ReadField(f, pos, "i32"),
          n_disk_size |-> ReadField(f, pos + 4, "i32"),
          n_size |-> ReadField(f, pos + 8, "u32"),
          type |-> f[pos + 13],
          compressed |-> BitAt(next_bytes, 0) = 1,
          n_dummy |-> IF dummy >= 32768 THEN dummy - 65536 ELSE dummy,
          name |-> EntryNameFrom(next_bytes, 17, 0, [k \in 1..MAX_TEXTURE_NAME |-> 0])]

\* HashMap::insert on a map kept as a function from keys to entries.
DirInsert(dir, key, entry) ==
    [k \in DOMAIN dir \cup {key} |-> IF k = key THEN entry ELSE dir[k]]

\* The loop of wad.rs:158-167: `left` entries from offset pos; e is the
\* entry read there.
RECURSIVE LoadEntries(_, _, _, _)
LoadEntry(f, left, dir, e) ==
    IF e.kind = "panic" THEN [kind |-> "panic", dir_entries |-> dir]
    ELSE LoadEntries(f, e.next, left - 1, DirInsert(dir, from_utf8_lossy(e.name), e))

LoadEntries(f, pos, left, dir) ==
    IF left = 0 THEN [kind |-> "ok", dir_entries |-> dir]
    ELSE LoadEntry(f, left, dir, WadDirEntry_from_reader(f, pos))

\* Wad::load_directory (wad.rs:148-168) once the header h is read.  A
\* negative n_dir cast to usize asks for more entries than any file holds:
\* the reads run off its end.
DirectoryOf(f, h) ==
    IF h.kind = "panic" THEN [kind |-> "panic", dir_entries |-> <<>>]
    ELSE IF ~(SubSeq(h.magic, 1, 3) = <<87, 65, 68>> /\ h.magic[4] \in {50, 51})
    THEN [kind |-> "panic", dir_entries |-> <<>>]
    ELSE IF h.dir_offset < 0 \/ h.n_dir < 0
    THEN [kind |-> "panic", dir_entries |-> <<>>]
    ELSE LoadEntries(f, h.dir_offset, h.n_dir, <<>>)

load_directory(f) == DirectoryOf(f, WadHeader_from_reader(f))

\* Wad::get_texture (wad.rs:170-183): a compressed entry panics; for any
\* other entry the bytes are read into a vector that has a capacity but
\* length 0, so read_exact fills nothing and the vector comes back empty.
get_texture(dir, f, name) ==
    IF name \notin DOMAIN dir THEN [kind |-> "ok", bytes |-> <<>>]
    ELSE IF dir[name].compressed THEN [kind |-> "panic", bytes |-> <<>>]
    ELSE IF dir[name].n_file_pos < 0 THEN [kind |-> "panic", bytes |-> <<>>]
    ELSE [kind |-> "ok", bytes |-> <<>>]

\* Wad::load_texture (wad.rs:132-138) up to the call of create_mip_texture,
\* on the outcome of get_texture: "none" for an empty vector, "some" with
\* the raw bytes otherwise.
TextureOfRaw(raw) ==
    IF raw.kind = "panic" THEN [kind |-> "panic", raw |-> <<>>]
    ELSE IF raw.bytes = <<>> THEN [kind |-> "none", raw |-> <<>>]
    ELSE [kind |-> "some", raw |-> raw.bytes]

load_texture(dir, f, name) == TextureOfRaw(get_texture(dir, f, name))

(* SpecWad: Wad::new's load_directory on generated archives of at most     *)
(* MaxWadEntries entries, then one load_texture.                           *)

MaxWadEntries == 2

\* A 16-byte name slot: the name, then zeros.
PadName(name) == [k \in 1..MAX_TEXTURE_NAME |-> IF k <= Len(name) THEN name[k] ELSE 0]

\* A directory entry as stored: file position, sizes, type, the compressed
\* flag byte, two dummy bytes, the name slot.
WadEntryBytes(e) ==
    EncodeValue("BE", "i32", e.pos) \o EncodeValue("BE", "i32", e.size)
       \o EncodeValue("BE", "u32", e.size) \o <<67, e.compressed>>
       \o EncodeValue("BE", "u16", e.dummy) \o PadName(e.name)

\* An archive: "WAD3", the entry count, the directory right after the
\* header, then 40 bytes of texture data.
WadFile(entries) ==
    <<87, 65, 68, 51>> \o EncodeValue("BE", "i32", Len(entries))
       \o EncodeValue("BE", "i32", 12)
       \o Flatten([k \in 1..Len(entries) |-> WadEntryBytes(entries[k])])
       \o [k \in 1..40 |-> 1]

\* Names stored in the generated archives: short ones and one that fills
\* the slot.
WadNames == {<<70, 79, 79>>, <<66, 65, 82>>, <<65, 66, 67, 68, 69, 70, 71, 72, 73, 74, 75, 76, 77, 78, 79, 80>>}

\* Flag bytes 0 (plain) and 1 (compressed), and the flag with its top bit
\* set; dummy bytes zero and not.
WadEntries ==
    [name : WadNames, compressed : {0, 1, 129}, dummy : {0, 1},
     pos : {12 + 32 * MaxWadEntries}, size : {40}]

WadArchives == UNION {[1..n -> WadEntries] : n \in 0..MaxWadEntries}

\* The names asked for: the stored names as written and in lower case, a
\* name stored nowhere, and every key the loaded directory holds.
WadQueries(dir) ==
    WadNames \cup {<<102, 111, 111>>, <<98, 97, 114>>, <<97, 98, 99, 100, 101, 102, 103, 104, 105, 106, 107, 108, 109, 110, 111, 112>>, <<78, 79, 78, 69>>} \cup
       (IF dir.kind = "ok" THEN DOMAIN dir.dir_entries ELSE {})

InitWad ==
    /\ callIn \in {[entries |-> es, file |-> WadFile(es)] : es \in WadArchives}
    /\ callOut = [op |-> "idle"]
    /\ LoadIdle /\ TreeIdle /\ VisIdle /\ EntIdle

\* Wad::new (wad.rs:113-130) on a file that can be opened.
CallWadNew ==
    /\ callOut.op = "idle"
    /\ callOut' = [op |-> "Wad::new", wad |-> load_directory(callIn.file)]
    /\ UNCHANGED <<callIn, loadVars, treeVars, visVars, entVars>>

\* wad.load_texture(name) on the archive opened.
CallLoadTexture ==
    /\ callOut.op = "Wad::new" /\ callOut.wad.kind = "ok"
    /\ \E name \in WadQueries(callOut.wad) :
          callOut' = [op |-> "load_texture", wad |-> callOut.wad, name |-> name,
                      before |-> callOut.wad.dir_entries,
                      out |-> load_texture(callOut.wad.dir_entries, callIn.file, name)]
    /\ UNCHANGED <<callIn, loadVars, treeVars, visVars, entVars>>

NextWad == CallWadNew \/ CallLoadTexture

SpecWad == InitWad /\ [][NextWad]_vars

\* Upper case of an ASCII name.
ToUpper(name) ==
    [k \in 1..Len(name) |-> IF 97 <= name[k] /\ name[k] <= 122 THEN name[k] - 32
                            ELSE name[k]]

\* The stored entries whose name is the query up to letter case.
StoredAs(entries, name) ==
    {k \in 1..Len(entries) : ToUpper(entries[k].name) = ToUpper(name)}

\* C14: for an archive holding an uncompressed entry whose name is shorter
\* than the 16-byte slot, load_texture of that name in any letter case
\* finds a texture.
C14_CaseInsensitiveLookup ==
    (/\ callOut.op = "load_texture"
     /\ \E k \in StoredAs(callIn.entries, callOut.name) :
           /\ callIn.entries[k].compressed = 0
           /\ Len(callIn.entries[k].name) < 16)
       => callOut.out.kind = "some"

\* C15: load_texture gives None, without a panic and with the directory as
\* it was, when the directory has no entry under the name or the entry
\* under it is marked compressed.
C15_MissOrCompressedIsNone ==
    (/\ callOut.op = "load_texture"
     /\ \/ callOut.name \notin DOMAIN callOut.before
        \/ callOut.before[callOut.name].compressed)
       => (callOut.out.kind = "none" /\ callOut.wad.dir_entries = callOut.before)

-----------------------------------------------------------------------------
(* wad.rs create_mip_texture: palette decode of a raw texture.             *)

\* raw_texture[i] (0-based); out of range is a panic, told by InBounds.
RawAt(raw, i) == raw[i + 1]

\* The body of the level loop before apply_alpha_sections (wad.rs:193-204):
\* an RGBA image of width x height whose texel i takes the three bytes at
\* palette_offset + (pixel_index + i) * 3 and alpha 255.
DecodeLevel(raw, palette_offset, pixel_index, width, height) ==
    LET at(i, c) == palette_offset + (pixel_index + i) * 3 + c IN
    IF \E i \in 0..(width * height - 1) : ~InBounds(raw, at(i, 2))
    THEN [kind |-> "panic", img |-> [channels |-> 4, width |-> width,
                                     height |-> height, data |-> <<>>]]
    ELSE [kind |-> "ok",
          img |-> [channels |-> 4, width |-> width, height |-> height,
                   data |-> [k \in 1..(width * height * 4) |->
                               IF (k - 1) % 4 = 3 THEN 255
                               ELSE RawAt(raw, at((k - 1) \div 4, (k - 1) % 4))]]]

\* apply_alpha_sections (wad.rs:243-341): its first loop (wad.rs:244-247)
\* writes p_rgb_texture[i * 4 + 2] for every texel into a vector that has a
\* capacity and length 0, so any image with a texel panics there; an image
\* without texels passes through unchanged.
apply_alpha_sections(img) ==
    IF img.width * img.height > 0 THEN [kind |-> "panic", img |-> img]
    ELSE [kind |-> "ok", img |-> img]

\* Image::new (image.rs:18-20): the default image.
Image_new == [channels |-> 0, width |-> 0, height |-> 0, data |-> <<>>]

\* `let img: Image = mip_tex.img[level]` (wad.rs:194) names the image the
\* loop fills.  The source does not say whether img is the slot of mip_tex
\* or a value of its own (Image is Clone, not Copy, and the binding is not a
\* reference), so both are kept: under "slot" the filled image is the one
\* in mip_tex, under "local" the slot keeps the image of Image::new.
ImgBindings == {"slot", "local"}
SlotImage(binding, filled) == IF binding = "slot" THEN filled ELSE Image_new

\* wad.rs:190.
PaletteOffset(tex) ==
    tex.offsets[MIP_LEVELS] + (tex.width \div 8) * (tex.height \div 8) + 2

\* The level loop of create_mip_texture (wad.rs:192-208) from `level` on;
\* d is the decode of the level, a the outcome of apply_alpha_sections.
RECURSIVE MipLevelsFrom(_, _, _, _, _, _, _, _)
MipLevelKeyed(raw, tex, palette_offset, level, width, height, imgs, binding, a) ==
    IF a.kind = "panic" THEN [kind |-> "panic", img |-> imgs]
    ELSE MipLevelsFrom(raw, tex, palette_offset, level + 1, width \div 2,
                       height \div 2, Append(imgs, a.img), binding)

MipLevelDecoded(raw, tex, palette_offset, level, width, height, imgs, binding, d) ==
    IF d.kind = "panic" THEN [kind |-> "panic", img |-> imgs]
    ELSE MipLevelKeyed(raw, tex, palette_offset, level, width, height, imgs, binding,
                       apply_alpha_sections(SlotImage(binding, d.img)))

MipLevelsFrom(raw, tex, palette_offset, level, width, height, imgs, binding) ==
    IF level >= MIP_LEVELS THEN [kind |-> "ok", img |-> imgs]
    ELSE MipLevelDecoded(raw, tex, palette_offset, level, width, height, imgs, binding,
                         DecodeLevel(raw, palette_offset, tex.offsets[level + 1],
                                     width, height))

\* Wad::create_mip_texture (wad.rs:185-211) once the MipTex t at the start
\* of the raw texture is read (and unwrapped).
MipTextureOf(raw, t, binding) ==
    IF t.kind # "ok" THEN [kind |-> "panic", img |-> <<>>]
    ELSE MipLevelsFrom(raw, t.tex, PaletteOffset(t.tex), 0, t.tex.width,
                       t.tex.height, <<>>, binding)

create_mip_texture(raw, binding) ==
    MipTextureOf(raw, MipTex_from_reader(raw, 0), binding)

(* SpecMip: create_mip_texture on generated raw textures.                  *)

\* The largest palette index the generated pixels hold.
MaxPixel == 3

\* Sizes (width, height) of the generated textures.
MipSizes == {<<2, 2>>, <<4, 2>>, <<8, 8>>}

\* Number of pixels of level L of a texture.
LevelPixels(size, L) == (size[1] \div Pow2(L)) * (size[2] \div Pow2(L))

\* Where the pixels of level L start in a raw texture: after the 40 bytes
\* of the MipTex and the levels before.
LevelOffset(size, L) == 40 + SumSeq([k \in 1..L |-> LevelPixels(size, k - 1)])

\* A raw texture: the MipTex, the pixels of the four levels (pixel i of a
\* level is pix[i]), two bytes of colour count, and a 256-entry palette
\* whose entry k is (base[1] + k, base[2] + k, base[3] + k) mod 256.
RawTexture(name, size, pix(_), base) ==
    MipTexBytes(PadName(name), size[1], size[2],
                [L \in 1..MIP_LEVELS |-> LevelOffset(size, L - 1)])
       \o Flatten([L \in 1..MIP_LEVELS |-> [i \in 1..LevelPixels(size, L - 1) |-> pix(i - 1)]])
       \o <<0, 1>>
       \o [k \in 1..768 |-> (base[((k - 1) % 3) + 1] + ((k - 1) \div 3)) % 256]

RawTextures ==
    {RawTexture(name, size, LAMBDA i : c, base) :
        name \in {<<65, 66, 67, 68, 69, 70, 71, 72, 73, 74, 75, 76, 77, 78, 79, 80>>, <<65, 66>>}, size \in MipSizes, c \in 0..MaxPixel,
        base \in {<<10, 20, 30>>, <<0, 0, 255>>}}
    \cup {RawTexture(name, size, LAMBDA i : i % (c + 2), base) :
            name \in {<<65, 66, 67, 68, 69, 70, 71, 72, 73, 74, 75, 76, 77, 78, 79, 80>>, <<65, 66>>}, size \in MipSizes, c \in 0..MaxPixel,
            base \in {<<10, 20, 30>>, <<0, 0, 255>>}}

InitMip ==
    /\ callIn \in {[raw |-> r] : r \in RawTextures}
    /\ callOut = [op |-> "idle"]
    /\ LoadIdle /\ TreeIdle /\ VisIdle /\ EntIdle

\* Wad::create_mip_texture(raw); `decoded` is what the first pass of the
\* level loop holds when it reaches apply_alpha_sections.
CallCreateMipTexture ==
    /\ callOut.op = "idle"
    /\ \E binding \in ImgBindings :
       LET t == MipTex_from_reader(callIn.raw, 0) IN
       callOut' = [op |-> "create_mip_texture",
                   tex |-> t,
                   decoded |-> IF t.kind = "ok"
                               THEN DecodeLevel(callIn.raw, PaletteOffset(t.tex),
                                                t.tex.offsets[1], t.tex.width,
                                                t.tex.height)
                               ELSE [kind |-> "panic"],
                   out |-> create_mip_texture(callIn.raw, binding)]
    /\ UNCHANGED <<callIn, loadVars, treeVars, visVars, entVars>>

NextMip == CallCreateMipTexture

SpecMip == InitMip /\ [][NextMip]_vars

\* The MipTex fields of a raw texture, read from their places (width at
\* byte 16, height at 20, the offsets from 24 on).
RawField(raw, at) == BigEndianValue("u32", SubSeq(raw, at + 1, at + 4))

\* C16: level 0 decodes to width * height texels; texel i has alpha 255 and
\* the RGB of palette entry p, where p is the pixel byte at
\* raw[offsets[0] + i] and the palette starts at
\* offsets[3] + (width/8) * (height/8) + 2.  (A 2x2 texture of index 0 with
\* palette entry 0 = (10,20,30) gives four texels (10,20,30,255).)
C16_PaletteDecode ==
    callOut.op = "create_mip_texture" =>
       LET raw == callIn.raw
           w == RawField(raw, 16)
           h == RawField(raw, 20)
           palette == RawField(raw, 36) + (w \div 8) * (h \div 8) + 2
           p(i) == raw[RawField(raw, 24) + i + 1]
       IN /\ callOut.decoded.kind = "ok"
          /\ Len(callOut.decoded.img.data) = 4 * w * h
          /\ \A i \in 0..(w * h - 1) :
                /\ \A c \in 0..2 :
                      callOut.decoded.img.data[4 * i + c + 1]
                         = raw[palette + 3 * p(i) + c + 1]
                /\ callOut.decoded.img.data[4 * i + 4] = 255

-----------------------------------------------------------------------------
(* BSP::from_file past the entities (bsp.rs:212-310).                      *)

\* The property names and values the loader looks for, as bytes.
StrClassname == <<99, 108, 97, 115, 115, 110, 97, 109, 101>>
StrWorldspawn == <<119, 111, 114, 108, 100, 115, 112, 97, 119, 110>>
StrInfodecal == <<105, 110, 102, 111, 100, 101, 99, 97, 108>>
StrModel == <<109, 111, 100, 101, 108>>

\* The classnames is_brush_entity accepts (bsp.rs:742-747).
BrushClassnames ==
    {<<102, 117, 110, 99, 95, 100, 111, 111, 114, 95, 114, 111, 116, 97, 116, 105, 110, 103>>,
     <<102, 117, 110, 99, 95, 100, 111, 111, 114>>,
     <<102, 117, 110, 99, 95, 105, 108, 108, 117, 115, 105, 111, 110, 97, 114, 121>>,
     <<102, 117, 110, 99, 95, 119, 97, 108, 108>>,
     <<102, 117, 110, 99, 95, 98, 114, 101, 97, 107, 97, 98, 108, 101>>,
     <<102, 117, 110, 99, 95, 98, 117, 116, 116, 111, 110>>}

\* Mutant of is_brush_entity: the `model` property is not asked for.
is_brush_entity_by_classname(entity) ==
    find_property(entity, StrClassname) \in BrushClassnames

\* BSP::is_brush_entity (bsp.rs:733-750).
is_brush_entity(entity) ==
    IF find_property(entity, StrModel) = NoValue THEN FALSE
    ELSE IF find_property(entity, StrClassname) = NoValue THEN FALSE
    ELSE find_property(entity, StrClassname) \in BrushClassnames

\* BSP::find_entities (bsp.rs:324-334): the indices (from 1) of the
\* entities whose classname is `name`, in order.
find_entities(entities, name) ==
    SortedSeq({i \in 1..Len(entities) : find_property(entities[i], StrClassname) = name})

\* The two archives load_decals always opens (bsp.rs:479-480).
DecalWadPaths == <<<<118, 97, 108, 118, 101, 47, 100, 101, 99, 97, 108, 115, 46, 119, 97, 100>>, <<99, 115, 116, 114, 105, 107, 101, 47, 100, 101, 99, 97, 108, 115, 46, 119, 97, 100>>>>

IsDigit(c) == 48 <= c /\ c <= 57
IsWhitespace(c) == c \in {9, 10, 11, 12, 13, 32}

\* The value of a run of decimal digits.
RECURSIVE DigitsValue(_)
DigitsValue(w) ==
    IF w = <<>> THEN 0 ELSE 10 * DigitsValue(SubSeq(w, 1, Len(w) - 1)) + (w[Len(w)] - 48)

\* str::parse::<usize>: an optional `+`, then one or more decimal digits.
ParseUsize(w) ==
    LET d == IF w # <<>> /\ w[1] = 43 THEN Tail(w) ELSE w IN
    IF d # <<>> /\ \A i \in 1..Len(d) : IsDigit(d[i])
    THEN [ok |-> TRUE, n |-> DigitsValue(d)]
    ELSE [ok |-> FALSE, n |-> 0]

\* Whether str::parse::<f32> accepts the word, for words made of a sign,
\* digits and a point (the origin strings considered hold no exponent).
ParsesAsF32(w) ==
    LET d == IF w # <<>> /\ w[1] \in {43, 45} THEN Tail(w) ELSE w IN
    /\ \E i \in 1..Len(d) : IsDigit(d[i])
    /\ \A i \in 1..Len(d) : IsDigit(d[i]) \/ d[i] = 46
    /\ Cardinality({i \in 1..Len(d) : d[i] = 46}) <= 1

StrOrigin == <<111, 114, 105, 103, 105, 110>>
StrWad == <<119, 97, 100>>

\* str::split(sep): the pieces between the separators, empty ones included.
RECURSIVE SplitOn(_, _)
SplitOn(s, sep) ==
    IF Find(s, 0, sep) < 0 THEN <<s>>
    ELSE <<Slice(s, 0, Find(s, 0, sep))>>
            \o SplitOn(Slice(s, Find(s, 0, sep) + 1, Len(s)), sep)

\* Path::components of a path without `.` and `..`: its non-empty pieces.
NonEmptyPieces(ps) ==
    LET keep == SortedSeq({i \in 1..Len(ps) : ps[i] # <<>>})
    IN [k \in 1..Len(keep) |-> ps[keep[k]]]

Components(path) == NonEmptyPieces(SplitOn(path, 47))

\* Wad::new (wad.rs:113-130) once the file is open: d is the outcome of
\* load_directory.
WadOpened(path, bytes, d) ==
    IF d.kind # "ok" THEN [kind |-> "panic", wad |-> <<>>]
    ELSE [kind |-> "ok",
          wad |-> [path |-> path, wad_file |-> bytes, dir_entries |-> d.dir_entries]]

\* Wad::new of a path below WAD_DIR: the open or the directory read may
\* panic.  `fs` maps the paths that can be opened to the bytes of their
\* files.
Wad_new(path, fs) ==
    IF path \notin DOMAIN fs THEN [kind |-> "panic", wad |-> <<>>]
    ELSE WadOpened(path, fs[path], load_directory(fs[path]))

\* The path load_wad_files opens for a piece of the `wad` property with
\* components cs (bsp.rs:363-376), relative to WAD_DIR: the last directory
\* and the file name.  A piece with one component has the parent "", whose
\* file_name() is None (the unwrap panics); a piece without components
\* ("/") names WAD_DIR itself, which is no archive.
WadPathOfComponents(cs) ==
    IF Len(cs) = 0 THEN [kind |-> "ok", path |-> <<>>]
    ELSE IF Len(cs) = 1 THEN [kind |-> "panic", path |-> <<>>]
    ELSE [kind |-> "ok", path |-> cs[Len(cs) - 1] \o <<47>> \o cs[Len(cs)]]

WadPathOf(piece) == WadPathOfComponents(Components(piece))

\* The loop of load_wad_files over the pieces from k on; p is the path of
\* piece k, w the outcome of Wad::new on it.
RECURSIVE LoadWadsFrom(_, _, _, _)
WadPushed(pieces, k, fs, wads, w) ==
    IF w.kind = "panic" THEN [kind |-> "panic", wads |-> wads]
    ELSE LoadWadsFrom(pieces, k + 1, fs, Append(wads, w.wad))

WadNamed(pieces, k, fs, wads, p) ==
    IF p.kind = "panic" THEN [kind |-> "panic", wads |-> wads]
    ELSE WadPushed(pieces, k, fs, wads, Wad_new(p.path, fs))

LoadWadsFrom(pieces, k, fs, wads) ==
    IF k > Len(pieces) THEN [kind |-> "ok", wads |-> wads]
    ELSE IF pieces[k] = <<>> THEN LoadWadsFrom(pieces, k + 1, fs, wads)
    ELSE WadNamed(pieces, k, fs, wads, WadPathOf(pieces[k]))

\* BSP::load_wad_files (bsp.rs:352-383): backslashes become slashes, the
\* string is split at `;`.
load_wad_files(wad_str, fs) ==
    LoadWadsFrom(SplitOn([k \in 1..Len(wad_str) |->
                            IF wad_str[k] = 92 THEN 47 ELSE wad_str[k]], 59),
                 1, fs, <<>>)

\* The loop of load_texture_from_wads (bsp.rs:460-467) and of
\* load_decal_texture (bsp.rs:469-476) over the archives from k on: the
\* first Some wins (t is what archive k gave), a panic of an archive's
\* load_texture ends the load.
RECURSIVE LoadTextureFrom(_, _, _)
TextureFromWad(wads, k, name, t) ==
    IF t.kind = "none" THEN LoadTextureFrom(wads, k + 1, name) ELSE t

LoadTextureFrom(wads, k, name) ==
    IF k > Len(wads) THEN [kind |-> "none", raw |-> <<>>]
    ELSE TextureFromWad(wads, k, name,
                        load_texture(wads[k].dir_entries, wads[k].wad_file, name))

\* Mutant of load_texture_from_wads: a texture found in no archive is fatal.
load_texture_from_wads_or_fail(wads, name) ==
    IF \A k \in 1..Len(wads) : name \notin DOMAIN wads[k].dir_entries
    THEN [kind |-> "panic", raw |-> <<>>]
    ELSE LoadTextureFrom(wads, 1, name)

load_texture_from_wads(wads, name) == LoadTextureFrom(wads, 1, name)

\* bsp30::TextureHeader::from_reader, whose body is not in the sources: by
\* the format description the sub-header of the texture lump is the mip
\* texture count, a little-endian u32, and a short read is an Err (which
\* bsp.rs:219 unwraps).
TextureHeader_from_reader(f, pos) ==
    IF CanRead(f, pos, Width("u32"))
    THEN [kind |-> "ok",
          header |-> [mip_texture_count |->
                        LittleEndianValue("u32", SubSeq(f, pos + 1, pos + Width("u32")))]]
    ELSE [kind |-> "err", header |-> [mip_texture_count |-> 0]]

\* bsp30::MipTexOffset::from_reader (an i32), whose body is not in the
\* sources: by the format description a little-endian i32; a short read is
\* an Err (which bsp.rs:225 unwraps).
MipTexOffset_from_reader(f, pos) ==
    IF CanRead(f, pos, Width("i32"))
    THEN [kind |-> "ok",
          offset |-> LittleEndianValue("i32", SubSeq(f, pos + 1, pos + Width("i32")))]
    ELSE [kind |-> "err", offset |-> 0]

\* MipmapTexture::new (wad.rs:98-102): MIP_LEVELS default images.
MipmapTexture_new == [img |-> [k \in 1..MIP_LEVELS |-> Image_new]]

\* BSP::find_entity (bsp.rs:313-322): the first entity of that classname
\* (its index from 1; 0 for None).
FirstOrNone(found) == IF found = <<>> THEN 0 ELSE found[1]

find_entity(entities, name) == FirstOrNone(find_entities(entities, name))

\* The loop of load_textures (bsp.rs:403-428) from texture i (0-based):
\* an external texture is looked up in the archives (t) and a miss counts
\* an error and leaves the slot as it is; an internal one is read from the
\* texture lump (every read unwrapped); m is the decoded texture.
RECURSIVE TextureLoop(_, _, _, _, _, _, _)
TextureDecoded(f, h, b, wads, i, acc, binding, m) ==
    IF m.kind = "panic" THEN [kind |-> "panic", cause |-> "decode"] @@ acc
    ELSE TextureLoop(f, h, b, wads, i + 1,
                     [acc EXCEPT !.m_textures[i + 1] = [img |-> m.img]], binding)

TextureFetched(f, h, b, wads, i, acc, binding, t) ==
    IF t.kind = "panic" THEN [kind |-> "panic", cause |-> "wad"] @@ acc
    ELSE IF t.kind = "none"
    THEN TextureLoop(f, h, b, wads, i + 1, [acc EXCEPT !.errors = @ + 1], binding)
    ELSE TextureDecoded(f, h, b, wads, i, acc, binding,
                        create_mip_texture(t.raw, binding))

TextureEmbedded(f, h, b, wads, i, acc, binding, at, data_size) ==
    IF ~CanRead(f, at, data_size) THEN [kind |-> "panic", cause |-> "eof"] @@ acc
    ELSE TextureDecoded(f, h, b, wads, i, acc, binding,
                        create_mip_texture(Slice(f, at, at + data_size), binding))

TextureLoop(f, h, b, wads, i, acc, binding) ==
    IF i >= b.texture_header.mip_texture_count THEN [kind |-> "ok", cause |-> ""] @@ acc
    ELSE IF b.mip_textures[i + 1].offsets[1] = 0
    THEN TextureFetched(f, h, b, wads, i, acc, binding,
                        load_texture_from_wads(wads,
                            from_utf8_lossy(b.mip_textures[i + 1].name)))
    ELSE TextureEmbedded(f, h, b, wads, i, acc, binding,
                         LumpOf(h, LumpTextures).offset + b.mip_texture_offsets[i + 1],
                         b.mip_textures[i + 1].offsets[MIP_LEVELS]
                            + (b.mip_textures[i + 1].height \div 8)
                                 * (b.mip_textures[i + 1].width \div 8) + 2 + 768)

\* bsp.rs:390-400: the archives of worldspawn's `wad` property (ws is the
\* index of the worldspawn entity, 0 when there is none).
WorldWads(b, ws, fs) ==
    IF ws = 0 \/ find_property(b.entities[ws], StrWad) = NoValue
    THEN [kind |-> "ok", wads |-> <<>>]
    ELSE load_wad_files(find_property(b.entities[ws], StrWad), fs)

\* Whether the indices bsp.rs:435-454 use for edge j of the face are all
\* inside their vectors: the surface edge at texture_info + j (the
\* face's texture-info index, not its first edge), read forward when it is
\* > 0, and the MipTex of the texture info.
TexCoordIndexed(b, face, j) ==
    /\ InBounds(b.surface_edges, face.texture_info + j)
    /\ InBounds(b.mip_textures, b.texture_infos[face.texture_info + 1].mip_tex_index)
    /\ LET edge_index == b.surface_edges[face.texture_info + j + 1] IN
       IF edge_index > 0
       THEN /\ InBounds(b.edges, edge_index)
            /\ InBounds(b.vertices, b.edges[edge_index + 1].vertex_index[1])
       ELSE /\ InBounds(b.edges, -edge_index)
            /\ InBounds(b.vertices, b.edges[1 - edge_index].vertex_index[2])

\* bsp.rs:436-454: the vertex of a surface edge as the texture
\* coordinates read it.
TexCoordVertexOf(b, edge_index) ==
    IF edge_index > 0 THEN b.vertices[b.edges[edge_index + 1].vertex_index[1] + 1]
    ELSE b.vertices[b.edges[1 - edge_index].vertex_index[2] + 1]

TexCoordVertex(b, face, j) ==
    TexCoordVertexOf(b, b.surface_edges[face.texture_info + j + 1])

\* bsp.rs:432-456 for one face: a texture coordinate is kept as the
\* fraction num / den, (dot(vertex, s) + s_shift) / width and
\* (dot(vertex, t) + t_shift) / height.
TexCoordsOf(b, face, tex_info, mip_tex) ==
    [tex_coords |->
        [j \in 1..face.edge_count |->
           [x |-> [num |-> Dot(TexCoordVertex(b, face, j - 1), tex_info.s)
                              + tex_info.s_shift,
                   den |-> mip_tex.width],
            y |-> [num |-> Dot(TexCoordVertex(b, face, j - 1), tex_info.t)
                              + tex_info.t_shift,
                   den |-> mip_tex.height]]],
     lightmap_coords |-> <<>>]

\* The loop of bsp.rs:431-457 from face i (0-based) on; `acc` holds the
\* coordinates of the faces before.
RECURSIVE TexCoordFaces(_, _, _)
TexCoordFaces(b, i, acc) ==
    IF i >= Len(b.faces) THEN [kind |-> "ok", face_tex_coords |-> acc]
    ELSE IF \/ ~InBounds(b.texture_infos, b.faces[i + 1].texture_info)
            \/ \E j \in 0..(b.faces[i + 1].edge_count - 1) :
                  ~TexCoordIndexed(b, b.faces[i + 1], j)
    THEN [kind |-> "panic", face_tex_coords |-> acc]
    ELSE TexCoordFaces(b, i + 1,
            Append(acc,
               TexCoordsOf(b, b.faces[i + 1],
                  b.texture_infos[b.faces[i + 1].texture_info + 1],
                  IF b.faces[i + 1].edge_count = 0 THEN [width |-> 0, height |-> 0]
                  ELSE b.mip_textures[b.texture_infos[b.faces[i + 1].texture_info + 1]
                                         .mip_tex_index + 1])))

\* bsp.rs:428-457: the archives are unloaded and the texture coordinates
\* of the faces (c) are stored.
TexCoordsStored(b, r, c) ==
    IF c.kind # "ok"
    THEN [kind |-> "panic", cause |-> "index", errors |-> r.errors, bsp |-> b]
    ELSE [kind |-> "ok", cause |-> "", errors |-> r.errors,
          bsp |-> [b EXCEPT !.m_textures = r.m_textures, !.wad_files = <<>>,
                            !.face_tex_coords = c.face_tex_coords]]

\* bsp.rs:401-457 once the texture loop has run (r).
TexturesLooped(b, r) ==
    IF r.kind # "ok"
    THEN [kind |-> r.kind, cause |-> r.cause, errors |-> r.errors, bsp |-> b]
    ELSE TexCoordsStored(b, r, TexCoordFaces(b, 0, <<>>))

\* bsp.rs:401-428: m_textures gets one default texture per declared
\* MipTex, then the loop runs over the opened archives.
TexturesWith(f, h, b, opened, binding) ==
    IF opened.kind = "panic"
    THEN [kind |-> "panic", cause |-> "wad", errors |-> 0, bsp |-> b]
    ELSE TexturesLooped(b,
            TextureLoop(f, h, b, opened.wads, 0,
                        [errors |-> 0,
                         m_textures |-> [k \in 1..b.texture_header.mip_texture_count
                                           |-> MipmapTexture_new]],
                        binding))

\* BSP::load_textures (bsp.rs:389-458).
load_textures(f, h, b, fs, binding) ==
    TexturesWith(f, h, b, WorldWads(b, find_entity(b.entities, StrWorldspawn), fs),
                 binding)

\* bsp.rs:226-230: the MipTex at each offset of the table; a negative
\* position cannot be sought to (Err through `?`), every from_reader is
\* unwrapped.
MipTexturesAt(f, at, offsets, texs) ==
    IF \E k \in 1..Len(offsets) : at + offsets[k] < 0
    THEN [kind |-> "err", cause |-> "seek", offsets |-> <<>>, textures |-> <<>>]
    ELSE IF \E k \in 1..Len(texs) : texs[k].kind # "ok"
    THEN [kind |-> "panic", cause |-> "eof", offsets |-> <<>>, textures |-> <<>>]
    ELSE [kind |-> "ok", cause |-> "", offsets |-> offsets,
          textures |-> [k \in 1..Len(texs) |-> texs[k].tex]]

MipTexturesOf(f, at, offsets) ==
    MipTexturesAt(f, at, offsets,
                  [k \in 1..Len(offsets) |-> MipTex_from_reader(f, at + offsets[k])])

\* bsp.rs:221-225: `count` offsets after the sub-header, each unwrapped: a
\* table that does not fit in the file panics.
ReadMipTextures(f, at, count) ==
    IF count > (Len(f) - at - Width("u32")) \div Width("i32")
    THEN [kind |-> "panic", cause |-> "eof", offsets |-> <<>>, textures |-> <<>>]
    ELSE MipTexturesOf(f, at,
            [k \in 1..count |->
               MipTexOffset_from_reader(f, at + Width("u32")
                                              + (k - 1) * Width("i32")).offset])

\* bsp.rs:218-234 once the TextureInfo records are read: the lump's
\* sub-header th (the texture count, unwrapped), the offsets and the MipTex
\* records mt, then load_textures.
TexturesDeclared(f, h, b, fs, binding, mt) ==
    IF mt.kind # "ok"
    THEN [kind |-> mt.kind, cause |-> mt.cause, errors |-> 0, bsp |-> b]
    ELSE load_textures(f, h, [b EXCEPT !.mip_texture_offsets = mt.offsets,
                                       !.mip_textures = mt.textures],
                       fs, binding)

TexturesHeaded(f, h, b, fs, binding, th) ==
    IF th.kind # "ok" THEN [kind |-> "panic", cause |-> "eof", errors |-> 0, bsp |-> b]
    ELSE TexturesDeclared(f, h, [b EXCEPT !.texture_header = th.header], fs, binding,
                          ReadMipTextures(f, LumpOf(h, LumpTextures).offset,
                                          th.header.mip_texture_count))

\* bsp.rs:212-217: the TextureInfo records ti, then the seek to the lump.
TexturesAfterInfos(f, h, b, fs, binding, ti) ==
    IF ti.kind # "ok" THEN [kind |-> ti.kind, cause |-> ti.cause, errors |-> 0, bsp |-> b]
    ELSE IF LumpOf(h, LumpTextures).offset < 0
    THEN [kind |-> "err", cause |-> "seek", errors |-> 0, bsp |-> b]
    ELSE TexturesHeaded(f, h, [b EXCEPT !.texture_infos = ti.recs], fs, binding,
                        TextureHeader_from_reader(f, LumpOf(h, LumpTextures).offset))

\* bsp.rs:212-234.
LoadTexturesPhase(f, h, b, fs, binding) ==
    TexturesAfterInfos(f, h, b, fs, binding,
        bsp_comp_init(f, h, "texture_infos", LumpTexinfo, TextureInfoLayout))

\* f32::floor and f32::ceil of x / 16.0 for a whole number x.
FloorDiv16(x) == x \div 16
CeilDiv16(x) == -((-x) \div 16)

\* The least and the greatest element of a non-empty set of numbers.
SetMin(S) == CHOOSE x \in S : \A y \in S : x <= y
SetMax(S) == CHOOSE x \in S : \A y \in S : x >= y

\* The start values of the extents (bsp.rs:578-581).
ExtentMinStart == 999999
ExtentMaxStart == -99999

\* bsp.rs:570-571 of load_light_maps: a face gets no lightmap when its
\* first style is not 0 or its lightmap offset, cast to isize, is below
\* -1 (the offset is a u32: the cast never gives a negative number).
LightSkipped(face) == face.styles[1] # 0 \/ face.lightmap_offset < -1

\* Whether the indices bsp.rs:584-589 use for edge j of the face are all
\* inside their vectors: the surface edge at first_edge_index + j, read
\* forward when it is >= 0.
LightEdgeIndexed(b, face, j) ==
    /\ InBounds(b.surface_edges, face.first_edge_index + j)
    /\ LET edge_index == b.surface_edges[face.first_edge_index + j + 1] IN
       IF edge_index >= 0
       THEN /\ InBounds(b.edges, edge_index)
            /\ InBounds(b.vertices, b.edges[edge_index + 1].vertex_index[1])
       ELSE /\ InBounds(b.edges, -edge_index)
            /\ InBounds(b.vertices, b.edges[1 - edge_index].vertex_index[2])

\* bsp.rs:584-589 (and 614-619): the vertex of edge j of the face.
LightVertexOf(b, edge_index) ==
    IF edge_index >= 0 THEN b.vertices[b.edges[edge_index + 1].vertex_index[1] + 1]
    ELSE b.vertices[b.edges[1 - edge_index].vertex_index[2] + 1]

LightVertex(b, face, j) ==
    LightVertexOf(b, b.surface_edges[face.first_edge_index + j + 1])

\* bsp.rs:626-635: the Image of the face, cut out of the lighting bytes
\* from lightmap_offset to n_width + n_height * 3 (both absolute); a range
\* that ends before it starts or after the data panics, as does a negative
\* end cast to usize.  `acc` collects m_lightmaps, the lightmap
\* coordinates per face and loaded_bytes.
LightImage(data, face, acc, i, n_width, n_height, coords) ==
    IF \/ n_width + n_height * 3 < 0
       \/ face.lightmap_offset > n_width + n_height * 3
       \/ n_width + n_height * 3 > Len(data)
    THEN [kind |-> "panic", cause |-> "slice", acc |-> acc]
    ELSE [kind |-> "ok", cause |-> "",
          acc |-> [m_lightmaps |->
                      Append(acc.m_lightmaps,
                             [channels |-> 3, width |-> n_width, height |-> n_height,
                              data |-> Slice(data, face.lightmap_offset,
                                             n_width + n_height * 3)]),
                   coords |-> [acc.coords EXCEPT ![i + 1] = coords],
                   loaded_bytes |-> acc.loaded_bytes + n_width + n_height * 3]]

\* bsp.rs:609-625: the lightmap coordinates of the face's vertices from
\* the extents.  A coordinate is kept as the fraction num / den:
\* (n_width / 2 + (f_u - (min_u + max_u) / 2) / 16) / n_width, and for v
\* the same with f_v + (min_v + max_v) / 2.
LightCoords(data, face, acc, i, us, vs, ext, n_width, n_height) ==
    LightImage(data, face, acc, i, n_width, n_height,
       [j \in 1..face.edge_count |->
          [x |-> [num |-> 16 * n_width + 2 * us[j] - (ext.min_u + ext.max_u),
                  den |-> 32 * n_width],
           y |-> [num |-> 16 * n_height + 2 * vs[j] + (ext.min_v + ext.max_v),
                  den |-> 32 * n_height]]])

\* bsp.rs:603-608: the size of the lightmap in texels.
LightSized(data, face, acc, i, us, vs, ext) ==
    LightCoords(data, face, acc, i, us, vs, ext,
                CeilDiv16(ext.max_u) - FloorDiv16(ext.min_u) + 1,
                CeilDiv16(ext.max_v) - FloorDiv16(ext.min_v) + 1)

\* bsp.rs:578-602: the extents of the face's vertices in texture space.
LightExtents(data, face, acc, i, us, vs) ==
    LightSized(data, face, acc, i, us, vs,
               [min_u |-> SetMin(Range(us) \cup {ExtentMinStart}),
                max_u |-> SetMax(Range(us) \cup {ExtentMaxStart}),
                min_v |-> SetMin(Range(vs) \cup {ExtentMinStart}),
                max_v |-> SetMax(Range(vs) \cup {ExtentMaxStart})])

\* bsp.rs:582-592: f_u and f_v of every vertex of the face.
LightProjected(b, data, face, acc, i, tex_info) ==
    LightExtents(data, face, acc, i,
       [j \in 1..face.edge_count |->
          Dot(tex_info.s, LightVertex(b, face, j - 1)) + tex_info.s_shift],
       [j \in 1..face.edge_count |->
          Dot(tex_info.t, LightVertex(b, face, j - 1)) + tex_info.t_shift])

\* The body of the loop of bsp.rs:571-639 for face i (0-based).
LightFace(b, data, face, acc, i, skipped) ==
    IF skipped
    THEN [kind |-> "ok", cause |-> "",
          acc |-> [acc EXCEPT !.m_lightmaps = Append(@, Image_new)]]
    ELSE IF \/ ~InBounds(b.face_tex_coords, i)
            \/ ~InBounds(b.texture_infos, face.texture_info)
            \/ \E j \in 0..(face.edge_count - 1) : ~LightEdgeIndexed(b, face, j)
    THEN [kind |-> "panic", cause |-> "index", acc |-> acc]
    ELSE LightProjected(b, data, face, acc, i, b.texture_infos[face.texture_info + 1])

RECURSIVE LightFaces(_, _, _, _)
LightFaceDone(b, data, i, r) ==
    IF r.kind # "ok" THEN r ELSE LightFaces(b, data, i + 1, r.acc)

LightFaces(b, data, i, acc) ==
    IF i >= Len(b.faces) THEN [kind |-> "ok", cause |-> "", acc |-> acc]
    ELSE LightFaceDone(b, data, i,
            LightFace(b, data, b.faces[i + 1], acc, i, LightSkipped(b.faces[i + 1])))

\* bsp.rs:640-645: the closing log line subtracts the lump length from
\* loaded_bytes in usize.  That subtraction panics in a build with
\* overflow checks and wraps in one without: `checked` says which build
\* runs.
LightLogged(b, length, checked, r) ==
    IF r.kind # "ok" THEN [kind |-> r.kind, cause |-> r.cause, bsp |-> b]
    ELSE IF checked /\ r.acc.loaded_bytes < length
    THEN [kind |-> "panic", cause |-> "overflow", bsp |-> b]
    ELSE [kind |-> "ok", cause |-> "",
          bsp |-> [b EXCEPT !.m_lightmaps = r.acc.m_lightmaps,
                            !.face_tex_coords =
                               [k \in 1..Len(b.face_tex_coords) |->
                                  IF LightSkipped(b.faces[k])
                                  THEN b.face_tex_coords[k]
                                  ELSE [b.face_tex_coords[k] EXCEPT
                                          !.lightmap_coords = r.acc.coords[k]]]]]

\* BSP::load_light_maps (bsp.rs:568-646) on the bytes of the lighting lump;
\* `length` is the lump's length in the header.
load_light_maps(b, p_light_map_data, length, checked) ==
    LightLogged(b, length, checked,
       LightFaces(b, p_light_map_data, 0,
                  [m_lightmaps |-> b.m_lightmaps,
                   coords |-> [k \in 1..Len(b.face_tex_coords) |-> <<>>],
                   loaded_bytes |-> 0]))

\* bsp.rs:236-246: without lighting bytes load_light_maps is not called.
LoadLightmapsPhase(f, h, b, checked) ==
    LET lump == LumpOf(h, LumpLighting) IN
    IF lump.length = 0 THEN [kind |-> "ok", cause |-> "", bsp |-> b]
    ELSE IF lump.length < 0 THEN [kind |-> "panic", cause |-> "capacity", bsp |-> b]
    ELSE IF lump.offset < 0 THEN [kind |-> "err", cause |-> "seek", bsp |-> b]
    ELSE IF ~CanRead(f, lump.offset, lump.length)
    THEN [kind |-> "panic", cause |-> "eof", bsp |-> b]
    ELSE load_light_maps(b, Slice(f, lump.offset, lump.offset + lump.length),
                         lump.length, checked)

StrTexture == <<116, 101, 120, 116, 117, 114, 101>>

\* The value str::parse::<f32> gives for a word it accepts; the origins
\* considered hold whole numbers.
F32Value(w) ==
    IF w[1] = 45 THEN 0 - DigitsValue(Tail(w))
    ELSE IF w[1] = 43 THEN DigitsValue(Tail(w))
    ELSE DigitsValue(w)

\* mathutil.rs point_in_plane: |dot(point, normal) - dist| < 1/32, which on
\* whole numbers is equality.
point_in_plane(p, normal, dist) == Dot(p, normal) - dist = 0

\* bsp.rs:545-560: the Decal pushed for a face, the entity's origin and the
\* texture at m_textures[it_val] (indexing panics).  `vec` holds the
\* corners doubled, so that half a texel stays a whole number.
DecalPushed(b, origin, face, it_val, st) ==
    IF ~InBounds(b.m_textures, it_val) \/ ~InBounds(b.texture_infos, face.texture_info)
    THEN [kind |-> "panic", cause |-> "index", st |-> st]
    ELSE LET h == b.m_textures[it_val + 1].img[1].height
             w == b.m_textures[it_val + 1].img[1].width
             s == b.texture_infos[face.texture_info + 1].s
             t == b.texture_infos[face.texture_info + 1].t
             corner(a, c) == [x \in 1..3 |-> 2 * origin[x] + a * t[x] * h + c * s[x] * w]
         IN [kind |-> "ok", cause |-> "",
             st |-> [st EXCEPT !.new_m_decals =
                        Append(@, [normal |-> b.planes[face.plane_index + 1].normal,
                                   tex_index |-> it_val,
                                   vec |-> <<corner(-1, -1), corner(-1, 1),
                                             corner(1, 1), corner(1, -1)>>])]]

\* bsp.rs:541-545 with the texture load_decal_texture decoded (d): it is
\* remembered under its name and pushed to new_m_textures, and it_val is
\* the length of m_textures.
DecalDecoded(b, origin, face, name, st, d) ==
    IF d.kind = "panic" THEN [kind |-> "panic", cause |-> "decode", st |-> st]
    ELSE DecalPushed(b, origin, face, Len(b.m_textures),
                     [st EXCEPT !.loaded_tex = @ \cup {name},
                                !.new_m_textures = Append(@, [img |-> d.img])])

\* bsp.rs:536-540: the texture of a decal not loaded before, as the decal
\* archives gave it (t): None ends the entity.
DecalTextured(b, origin, face, name, st, t, binding) ==
    IF t.kind = "panic" THEN [kind |-> "panic", cause |-> "wad", st |-> st]
    ELSE IF t.kind = "none" THEN [kind |-> "ok", cause |-> "", st |-> st]
    ELSE DecalDecoded(b, origin, face, name, st, create_mip_texture(t.raw, binding))

\* bsp.rs:526-562 for a face whose plane holds the origin: without a
\* `texture` the entity is done; a texture loaded before leaves it_val 0;
\* any other name is asked of the decal archives (`fetched` keeps the
\* names asked for, in order).
DecalOnFace(b, wads, origin, face, name, st, binding) ==
    IF name = NoValue THEN [kind |-> "ok", cause |-> "", st |-> st]
    ELSE IF name \in st.loaded_tex THEN DecalPushed(b, origin, face, 0, st)
    ELSE DecalTextured(b, origin, face, name, [st EXCEPT !.fetched = Append(@, name)],
                       load_texture_from_wads(wads, name), binding)

\* Whether the indices bsp.rs:513-524 use for mark surface j of the leaf
\* are all inside their vectors.
FaceIndexed(b, leaf, j) ==
    /\ InBounds(b.mark_surfaces, leaf.first_mark_surface + j)
    /\ InBounds(b.faces, b.mark_surfaces[leaf.first_mark_surface + j + 1])
    /\ LET face == b.faces[b.mark_surfaces[leaf.first_mark_surface + j + 1] + 1] IN
       /\ InBounds(b.planes, face.plane_index)
       /\ InBounds(b.surface_edges, face.first_edge_index)
       /\ LET edge_index == b.surface_edges[face.first_edge_index + 1] IN
          IF edge_index > 0
          THEN /\ InBounds(b.edges, edge_index)
               /\ InBounds(b.vertices, b.edges[edge_index + 1].vertex_index[1])
          ELSE /\ InBounds(b.edges, -edge_index)
               /\ InBounds(b.vertices, b.edges[1 - edge_index].vertex_index[2])

\* bsp.rs:516-522: the vertex the face's first surface edge starts from.
FaceVertex(b, face, edge_index) ==
    IF edge_index > 0 THEN b.vertices[b.edges[edge_index + 1].vertex_index[1] + 1]
    ELSE b.vertices[b.edges[1 - edge_index].vertex_index[2] + 1]

\* The loop of bsp.rs:512-562 over the mark surfaces of the leaf from j on.
RECURSIVE DecalFaces(_, _, _, _, _, _, _, _)
DecalFace(b, wads, origin, entity, leaf, j, st, binding, face) ==
    IF ~point_in_plane(origin, b.planes[face.plane_index + 1].normal,
                       Dot(b.planes[face.plane_index + 1].normal,
                           FaceVertex(b, face, b.surface_edges[face.first_edge_index + 1])))
    THEN DecalFaces(b, wads, origin, entity, leaf, j + 1, st, binding)
    ELSE DecalOnFace(b, wads, origin, face, find_property(entity, StrTexture), st,
                     binding)

DecalFaces(b, wads, origin, entity, leaf, j, st, binding) ==
    IF j >= leaf.mark_surface_count THEN [kind |-> "ok", cause |-> "", st |-> st]
    ELSE IF ~FaceIndexed(b, leaf, j) THEN [kind |-> "panic", cause |-> "index", st |-> st]
    ELSE DecalFace(b, wads, origin, entity, leaf, j, st, binding,
                   b.faces[b.mark_surfaces[leaf.first_mark_surface + j + 1] + 1])

\* bsp.rs:502-511: the leaf of the origin as find_leaf gave it (l); no leaf
\* and a leaf index outside `leaves` skip the entity.
DecalInLeaf(b, wads, origin, entity, st, binding, l) ==
    IF l.kind \notin {"some", "none"}
    THEN [kind |-> IF l.kind = "overflow" THEN "abort" ELSE "panic",
          cause |-> IF l.kind = "overflow" THEN "stack" ELSE "index", st |-> st]
    ELSE IF l.kind = "none" \/ ~InBounds(b.leaves, l.leaf)
    THEN [kind |-> "ok", cause |-> "", st |-> st]
    ELSE DecalFaces(b, wads, origin, entity, b.leaves[l.leaf + 1], 0, st, binding)

\* bsp.rs:489-501: the origin of an infodecal entity, given the words of
\* its `origin` split at single spaces (<<>> when it has none): anything
\* but three words skips the entity, each word is parsed and unwrapped.
DecalAtOrigin(b, wads, entity, st, binding, words) ==
    IF Len(words) # 3 THEN [kind |-> "ok", cause |-> "", st |-> st]
    ELSE IF \E k \in 1..3 : ~ParsesAsF32(words[k])
    THEN [kind |-> "panic", cause |-> "parse", st |-> st]
    ELSE DecalInLeaf(b, wads, [k \in 1..3 |-> F32Value(words[k])], entity, st, binding,
                     find_leaf(b.nodes, b.leaves, [k \in 1..3 |-> F32Value(words[k])], 0))

\* The loop of bsp.rs:489-563 over the infodecal entities from k on; r is
\* the outcome of the entity before.
RECURSIVE DecalLoop(_, _, _, _, _, _)
DecalNext(b, wads, decals, k, binding, r) ==
    IF r.kind # "ok" THEN r ELSE DecalLoop(b, wads, decals, k + 1, r.st, binding)

DecalLoop(b, wads, decals, k, st, binding) ==
    IF k > Len(decals) THEN [kind |-> "ok", cause |-> "", st |-> st]
    ELSE DecalNext(b, wads, decals, k, binding,
            DecalAtOrigin(b, wads, b.entities[decals[k]], st, binding,
               IF find_property(b.entities[decals[k]], StrOrigin) = NoValue THEN <<>>
               ELSE SplitOn(find_property(b.entities[decals[k]], StrOrigin), 32)))

\* bsp.rs:564-565: the decals of the loop are appended; a decal texture is
\* kept in m_textures by its name.
DecalsLooped(b, wads, r) ==
    [kind |-> r.kind, cause |-> r.cause, fetched |-> r.st.fetched,
     bsp |-> IF r.kind # "ok" THEN b
             ELSE [b EXCEPT !.decal_wads = wads,
                            !.m_textures = @ \o r.st.new_m_textures,
                            !.m_decals = @ \o r.st.new_m_decals]]

\* load_decals (bsp.rs:478-566) once both decal archives are opened
\* (Wad::new panics when one cannot be): without infodecal entities the
\* function returns at bsp.rs:482-485.
DecalWadsOpened(b, opened, binding) ==
    IF \E i \in 1..Len(opened) : opened[i].kind # "ok"
    THEN [kind |-> "panic", cause |-> "wad", fetched |-> <<>>, bsp |-> b]
    ELSE DecalsLooped(b, [i \in 1..Len(opened) |-> opened[i].wad],
            DecalLoop(b, [i \in 1..Len(opened) |-> opened[i].wad],
                      find_entities(b.entities, StrInfodecal), 1,
                      [loaded_tex |-> {}, new_m_textures |-> <<>>, new_m_decals |-> <<>>,
                       fetched |-> <<>>],
                      binding))

\* `fs` maps the archives that can be opened to their bytes.
load_decals(b, fs, binding) ==
    DecalWadsOpened(b, [i \in 1..Len(DecalWadPaths) |-> Wad_new(DecalWadPaths[i], fs)],
                    binding)

\* The loop of bsp.rs:262-266 from index i (0-based): leaves[i + 1] must
\* exist; for a leaf with a PVS, decompress_vis runs and the assignment to
\* vis_lists[i] then indexes a vector of length 0.
RECURSIVE VisListLoop(_, _, _, _)
VisListLoop(b, compressed_vis, i, count) ==
    IF i >= count THEN [kind |-> "ok", cause |-> ""]
    ELSE IF ~InBounds(b.leaves, i + 1) THEN [kind |-> "panic", cause |-> "index"]
    ELSE IF b.leaves[i + 2].vis_offset >= 0
    THEN LET d == decompress_vis(b.leaves, Len(b.vis_lists), i + 1, compressed_vis)
         IN IF d.kind = "hang" THEN [kind |-> "hang", cause |-> "vis"]
            ELSE [kind |-> "panic", cause |-> "index"]
    ELSE VisListLoop(b, compressed_vis, i + 1, count)

\* bsp.rs:251-268.
LoadVisibilityPhase(f, h, b) ==
    LET lump == LumpOf(h, LumpVisibility) IN
    IF lump.length <= 0 THEN [kind |-> "ok", cause |-> "", bsp |-> b]
    ELSE IF lump.offset < 0 THEN [kind |-> "err", cause |-> "seek", bsp |-> b]
    ELSE IF ~CanRead(f, lump.offset, lump.length)
    THEN [kind |-> "panic", cause |-> "eof", bsp |-> b]
    ELSE
    LET count == count_vis_leaves(b.nodes, b.leaves, 0) IN
    IF count.kind = "overflow" THEN [kind |-> "abort", cause |-> "stack", bsp |-> b]
    ELSE IF count.kind # "ok" THEN [kind |-> "panic", cause |-> "index", bsp |-> b]
    ELSE LET r == VisListLoop(b, Slice(f, lump.offset, lump.offset + lump.length),
                              0, count.n)
         IN [kind |-> r.kind, cause |-> r.cause, bsp |-> b]

StrRendermode == <<114, 101, 110, 100, 101, 114, 109, 111, 100, 101>>

\* RenderMode::RenderModeTexture.
RenderModeTexture == 2

\* str::split(char::is_whitespace): the pieces between whitespace
\* characters, empty pieces included.
RECURSIVE SplitWhitespace(_)
SplitWhitespace(w) ==
    IF \E i \in 1..Len(w) : IsWhitespace(w[i])
    THEN LET k == CHOOSE i \in 1..Len(w) :
                     IsWhitespace(w[i]) /\ \A j \in 1..(i - 1) : ~IsWhitespace(w[j])
         IN <<SubSeq(w, 1, k - 1)>> \o SplitWhitespace(SubSeq(w, k + 1, Len(w)))
    ELSE <<w>>

\* bsp.rs:278-293 for a brush entity with an `origin`: the character at
\* index 1 of `model` (unwrapped), cast to usize, indexes self.models; the
\* origin of that model is copied into a local, whose components are then
\* set from the first three words of the origin string (each unwrapped).
\* The local is dropped: no Model is changed.  TRUE when nothing panics.
OriginOverride(b, entity) ==
    LET model == find_property(entity, StrModel)
        words == SplitWhitespace(find_property(entity, StrOrigin))
    IN /\ Len(model) >= 2
       /\ InBounds(b.models, model[2])
       /\ Len(words) >= 3
       /\ \A k \in 1..3 : ParsesAsF32(words[k])

RECURSIVE ClassifyFrom(_, _, _, _)
\* Mutant of ClassifyFrom: an entity that is no brush entity is put into
\* neither list.
ClassifyFromDropping(b, i, brush, special) ==
    IF i >= Len(b.entities)
    THEN [kind |-> "ok", brush |-> brush, special |-> special]
    ELSE IF is_brush_entity(b.entities[i + 1])
    THEN ClassifyFrom(b, i + 1, Append(brush, i), special)
    ELSE ClassifyFrom(b, i + 1, brush, special)

\* The loop of bsp.rs:272-297 from entity i (0-based) on.
ClassifyFrom(b, i, brush, special) ==
    IF i >= Len(b.entities)
    THEN [kind |-> "ok", brush |-> brush, special |-> special]
    ELSE LET entity == b.entities[i + 1] IN
         IF is_brush_entity(entity)
         THEN IF find_property(entity, StrOrigin) # NoValue /\ ~OriginOverride(b, entity)
              THEN [kind |-> "panic", brush |-> Append(brush, i), special |-> special]
              ELSE ClassifyFrom(b, i + 1, Append(brush, i), special)
         ELSE ClassifyFrom(b, i + 1, brush, Append(special, i))

\* The predicate handed to partition (bsp.rs:301-308) on entity index i:
\* "panic" when `rendermode` is there and is no usize.
RendermodePredicate(b, i) ==
    LET v == find_property(b.entities[i + 1], StrRendermode) IN
    IF v = NoValue THEN "false"
    ELSE IF ~ParseUsize(v).ok THEN "panic"
    ELSE IF ParseUsize(v).n = RenderModeTexture THEN "true" ELSE "false"

\* std_tools::partition(&mut v, pred) is a crate outside this repository.
\* What a partition gives: the same elements, those satisfying the
\* predicate first.  The order inside the two groups is left open.
PartitionOutcomes(v, first) ==
    {w \in [1..Len(v) -> Range(v)] :
        /\ \A x \in Range(v) :
              Cardinality({k \in 1..Len(v) : w[k] = x})
                 = Cardinality({k \in 1..Len(v) : v[k] = x})
        /\ \A j, k \in 1..Len(v) : (w[k] \in first /\ w[j] \notin first) => k < j}

\* bsp.rs:272-308: classification, then the partition of brush_entities.
\* `bsps` holds the values the BSP may have afterwards.
PostProcess(b) ==
    LET c == ClassifyFrom(b, 0, b.brush_entities, b.special_entities)
        done == [b EXCEPT !.brush_entities = c.brush, !.special_entities = c.special]
        first == {i \in Range(c.brush) : RendermodePredicate(b, i) = "true"}
    IN
    IF c.kind = "panic" THEN [kind |-> "panic", cause |-> "origin", bsps |-> {done}]
    ELSE IF \E k \in 1..Len(c.brush) : RendermodePredicate(b, c.brush[k]) = "panic"
    THEN [kind |-> "panic", cause |-> "rendermode", bsps |-> {done}]
    ELSE [kind |-> "ok", cause |-> "",
          bsps |-> {[done EXCEPT !.brush_entities = w] :
                      w \in PartitionOutcomes(c.brush, first)}]

-----------------------------------------------------------------------------
(* Spec: BSP::from_file on generated map files, one phase per step.        *)

(* The map files handed to the load. *)

\* The most bytes appended to a record lump to make its length ragged.
MaxPad == 1

\* Entity texts: none, one well-spaced block, one tight block, an opened
\* block that is never closed.
MapTexts == {<<>>, <<123, 32, 34, 97, 34, 32, 34, 98, 34, 32, 125>>, <<123, 34, 97, 34, 32, 34, 98, 34, 125>>, <<123>>}

\* What varies between the generated maps: whether there is a tree, the
\* vis_offset of leaf 1, the entity text, the visibility and lighting bytes.
MapContents ==
    [tree : BOOLEAN, vis_offset : {-1, 0}, text : MapTexts,
     vis : {<<>>, <<1>>}, light : {<<>>, <<7, 7, 7>>}]

\* The record values of a generated map, per lump, in field order: with a
\* tree, one node over an empty leaf 1 and a solid leaf 2 behind the solid
\* leaf 0; no faces and no declared texture.
MapRecords(c) ==
    [i \in 0..(HeaderLumps - 1) |->
       CASE i = LumpNodes -> IF c.tree THEN <<<<0, -2, -3, 0, 0, 0, 2, 2, 2, 0, 0>>>>
                                       ELSE <<>>
         [] i = LumpLeaves ->
              IF c.tree
              THEN <<<<ContentsSolid, -1, 0, 0, 0, 2, 2, 2, 0, 0, 0, 0, 0, 0>>,
                     <<ContentsEmpty, c.vis_offset, 0, 0, 0, 2, 2, 2, 0, 1, 0, 0, 0, 0>>,
                     <<ContentsSolid, -1, 0, 0, 0, 2, 2, 2, 0, 0, 0, 0, 0, 0>>>>
              ELSE <<>>
         [] i = LumpMarkSurfaces -> <<<<258>>>>
         [] i = LumpClipNodes -> <<<<1, -1, -2>>>>
         [] i = LumpSurfaceEdges -> <<<<-1>>>>
         [] i = LumpEdges -> <<<<0, 1>>, <<1, 0>>>>
         [] i = LumpVertexes -> <<<<1, 2, 3>>, <<-1, 0, 4>>>>
         [] i = LumpPlanes -> <<<<1, 0, 0, 4, 0>>>>
         [] i = LumpTexinfo -> <<<<1, 0, 0, 0, 0, 1, 0, 0, 0, 0>>>>
         [] i = LumpTextures -> <<<<0>>>>
         [] OTHER -> <<>>]

MapLayout(i) ==
    CASE i = LumpNodes -> NodeLayout
      [] i = LumpLeaves -> LeafLayout
      [] i = LumpMarkSurfaces -> MarkSurfaceLayout
      [] i = LumpFaces -> FaceLayout
      [] i = LumpClipNodes -> ClipNodeLayout
      [] i = LumpSurfaceEdges -> SurfaceEdgeLayout
      [] i = LumpEdges -> EdgeLayout
      [] i = LumpVertexes -> VertexLayout
      [] i = LumpPlanes -> PlaneLayout
      [] i = LumpTexinfo -> TextureInfoLayout
      [] OTHER -> <<"u32">>

\* The lumps whose content is a sequence of fixed-size records.
RecordLumpTypes ==
    {LumpNodes, LumpLeaves, LumpMarkSurfaces, LumpFaces, LumpClipNodes,
     LumpSurfaceEdges, LumpEdges, LumpVertexes, LumpPlanes, LumpTexinfo}

\* The bytes of lump i; lump `ragged` (if any) carries `pad` bytes more.
MapLumpBytes(order, c, ragged, pad) ==
    [i \in 0..(HeaderLumps - 1) |->
       (CASE i = LumpEntities -> c.text
          [] i = LumpVisibility -> c.vis
          [] i = LumpLighting -> c.light
          [] OTHER -> EncodeRecords(order, MapLayout(i), MapRecords(c)[i]))
       \o (IF i = ragged THEN [k \in 1..pad |-> 0] ELSE <<>>)]

\* The file: the version, the lump directory, then the lumps one after the
\* other in directory order.
MapFileOf(order, version, data) ==
    LET start == Width("i32") + HeaderLumps * SizeOf(LumpLayout)
        at(i) == start + SumSeq([j \in 1..i |-> Len(data[j - 1])])
    IN EncodeValue(order, "i32", version)
         \o Flatten([j \in 1..HeaderLumps |->
                       EncodeRecord(order, LumpLayout, <<at(j - 1), Len(data[j - 1])>>)])
         \o Flatten([j \in 1..HeaderLumps |-> data[j - 1]])

MapFile(order, version, c, ragged, pad) ==
    MapFileOf(order, version, MapLumpBytes(order, c, ragged, pad))

\* A map with every kind of content, written the way the loader reads.
FullContent ==
    [tree |-> TRUE, vis_offset |-> -1, text |-> <<123, 32, 34, 97, 34, 32, 34, 98, 34, 32, 125>>,
     vis |-> <<1>>, light |-> <<7, 7, 7>>]

\* Whole files in both byte orders and of versions 29 and 30; files with
\* one ragged record lump; every proper prefix of a whole file.
MapFiles ==
    {MapFile(order, version, c, -1, 0) :
        order \in {"BE", "LE"}, version \in {BspVersion - 1, BspVersion},
        c \in MapContents}
    \cup {MapFile("BE", BspVersion, c, ragged, pad) :
            c \in {x \in MapContents : x.vis = <<>> /\ x.text = FullContent.text},
            ragged \in RecordLumpTypes, pad \in 1..MaxPad}
    \cup {SubSeq(MapFile("BE", BspVersion, FullContent, -1, 0), 1, n) :
            n \in 0..(Len(MapFile("BE", BspVersion, FullContent, -1, 0)) - 1)}

\* The files below WAD_DIR: both decal archives (without entries), or the
\* first of them only.
DecalFiles(paths) == [p \in paths |-> WadFile(<<>>)]

Envs ==
    [exists : BOOLEAN,
     wads : {DecalFiles(Range(DecalWadPaths)), DecalFiles({DecalWadPaths[1]})},
     overflow_checks : BOOLEAN]

Init ==
    /\ file \in MapFiles
    /\ env \in Envs
    /\ pc = "Unopened" /\ header = NoHeader /\ bsp = EmptyBsp
    /\ result = "none" /\ cause = "" /\ history = <<>>
    /\ TreeIdle /\ VisIdle /\ EntIdle
    /\ CallIdle

\* Mutant of PhaseOrder: the decals are loaded before the textures.
PhaseOrderDecalsFirst ==
    <<"Unopened", "HeaderRead", "LumpsRead", "EntitiesParsed", "DecalsLoaded",
      "LightmapsLoaded", "TexturesLoaded", "VisibilityLoaded", "PostProcessed", "Ready">>

\* The phases of from_file in the order of its statements: the position
\* before the file is opened, then one name per block of bsp.rs:147-310.
PhaseOrder ==
    <<"Unopened", "HeaderRead", "LumpsRead", "EntitiesParsed", "TexturesLoaded",
      "LightmapsLoaded", "DecalsLoaded", "VisibilityLoaded", "PostProcessed", "Ready">>

PhaseIndex(p) == CHOOSE i \in 1..Len(PhaseOrder) : PhaseOrder[i] = p

\* The position from which the block that completes phase p runs.
PhaseBefore(p) == PhaseOrder[PhaseIndex(p) - 1]

\* A block ran to its end: phase p is complete.
Complete(p) ==
    /\ pc' = p
    /\ history' = Append(history, p)
    /\ result' = (IF p = "Ready" THEN "ok" ELSE "none")
    /\ cause' = ""

\* from_file ends inside a block: an Err handed to the caller, a panic, a
\* loop that does not end or a stack overflow.  No BSP value is returned.
Stop(kind, why) ==
    /\ pc' = "Failed"
    /\ history' = history
    /\ result' = kind
    /\ cause' = why

\* bsp.rs:136-153: open the file, read the header, test the version.
ReadHeader ==
    /\ pc = PhaseBefore("HeaderRead") /\ result = "none"
    /\ LET h == Header_from_reader(file) IN
       IF ~env.exists THEN Stop("err", "open") /\ UNCHANGED header
       ELSE IF h.kind # "ok" THEN Stop("panic", "eof") /\ UNCHANGED header
       ELSE IF ~VersionAccepted(h.header.version)
       THEN Stop("err", "version") /\ header' = h.header
       ELSE Complete("HeaderRead") /\ header' = h.header
    /\ UNCHANGED <<file, env, bsp, treeVars, visVars, entVars, callVars>>

\* bsp.rs:154-202: the empty BSP value, then the nine record lumps.  The
\* lumps read before one that fails stay in the value that is dropped.
ReadLumps ==
    /\ pc = PhaseBefore("LumpsRead") /\ result = "none"
    /\ LET r == ReadRecordLumps(file, header)
           upto == IF r.failed = 0 THEN Len(RecordLumps) ELSE r.failed - 1
           got(name) == LET k == CHOOSE i \in 1..Len(RecordLumps) :
                                     RecordLumps[i].name = name
                        IN IF k <= upto THEN r.out[k].recs ELSE <<>>
       IN /\ bsp' = [bsp EXCEPT !.nodes = got("nodes"), !.leaves = got("leaves"),
                                !.mark_surfaces = got("mark_surfaces"),
                                !.faces = got("faces"),
                                !.clip_nodes = got("clip_nodes"),
                                !.surface_edges = got("surface_edges"),
                                !.edges = got("edges"),
                                !.vertices = got("vertices"),
                                !.planes = got("planes")]
          /\ IF r.failed = 0 THEN Complete("LumpsRead")
             ELSE Stop(r.out[r.failed].kind, r.out[r.failed].cause)
    /\ UNCHANGED <<file, env, header, treeVars, visVars, entVars, callVars>>

\* bsp.rs:204-210.
ParseEntities ==
    /\ pc = PhaseBefore("EntitiesParsed") /\ result = "none"
    /\ LET r == ReadEntities(file, header) IN
       IF r.kind = "ok"
       THEN Complete("EntitiesParsed") /\ bsp' = [bsp EXCEPT !.entities = r.entities]
       ELSE Stop(r.kind, r.cause) /\ UNCHANGED bsp
    /\ UNCHANGED <<file, env, header, treeVars, visVars, entVars, callVars>>

\* bsp.rs:212-234.  callOut keeps the closing log line of load_textures
\* (bsp.rs:430): the number of textures that failed.
LoadTextures ==
    /\ pc = PhaseBefore("TexturesLoaded") /\ result = "none"
    /\ \E binding \in ImgBindings :
       LET r == LoadTexturesPhase(file, header, bsp, env.wads, binding) IN
       /\ bsp' = r.bsp
       /\ callOut' = (IF r.kind = "ok"
                      THEN [op |-> "load_textures", errors |-> r.errors]
                      ELSE callOut)
       /\ IF r.kind = "ok" THEN Complete("TexturesLoaded") ELSE Stop(r.kind, r.cause)
    /\ UNCHANGED <<file, env, header, treeVars, visVars, entVars, callIn>>

\* bsp.rs:236-246.
LoadLightmaps ==
    /\ pc = PhaseBefore("LightmapsLoaded") /\ result = "none"
    /\ LET r == LoadLightmapsPhase(file, header, bsp, env.overflow_checks) IN
       /\ bsp' = r.bsp
       /\ IF r.kind = "ok" THEN Complete("LightmapsLoaded") ELSE Stop(r.kind, r.cause)
    /\ UNCHANGED <<file, env, header, treeVars, visVars, entVars, callVars>>

\* bsp.rs:248.
LoadDecals ==
    /\ pc = PhaseBefore("DecalsLoaded") /\ result = "none"
    /\ \E binding \in ImgBindings :
       LET r == load_decals(bsp, env.wads, binding) IN
       /\ bsp' = r.bsp
       /\ callOut' = (IF r.kind = "ok" THEN callOut @@ [fetched |-> r.fetched]
                      ELSE callOut)
       /\ IF r.kind = "ok" THEN Complete("DecalsLoaded") ELSE Stop(r.kind, r.cause)
    /\ UNCHANGED <<file, env, header, treeVars, visVars, entVars, callIn>>

\* bsp.rs:251-268.
LoadVisibility ==
    /\ pc = PhaseBefore("VisibilityLoaded") /\ result = "none"
    /\ LET r == LoadVisibilityPhase(file, header, bsp) IN
       /\ bsp' = r.bsp
       /\ IF r.kind = "ok" THEN Complete("VisibilityLoaded") ELSE Stop(r.kind, r.cause)
    /\ UNCHANGED <<file, env, header, treeVars, visVars, entVars, callVars>>

\* bsp.rs:272-308.
ClassifyEntities ==
    /\ pc = PhaseBefore("PostProcessed") /\ result = "none"
    /\ LET r == PostProcess(bsp) IN
       /\ bsp' \in r.bsps
       /\ IF r.kind = "ok" THEN Complete("PostProcessed") ELSE Stop(r.kind, r.cause)
    /\ UNCHANGED <<file, env, header, treeVars, visVars, entVars, callVars>>

\* bsp.rs:309-310: Ok(bsp).
Finish ==
    /\ pc = PhaseBefore("Ready") /\ result = "none"
    /\ Complete("Ready")
    /\ UNCHANGED <<file, env, header, bsp, treeVars, visVars, entVars, callVars>>

Next ==
    \/ ReadHeader
    \/ ReadLumps
    \/ ParseEntities
    \/ LoadTextures
    \/ LoadLightmaps
    \/ LoadDecals
    \/ LoadVisibility
    \/ ClassifyEntities
    \/ Finish

Spec == Init /\ [][Next]_vars

(* What a load is to do, stated on the file and on the outcome. *)

\* C1: whenever the version field of the decoded header is not 30, the load
\* has ended with an Err, no phase is complete and no lump has been decoded
\* into the BSP value; a lump is decoded or a later phase complete only
\* when the version is exactly 30.
C1_VersionGate ==
    /\ (header # NoHeader /\ header.version # 30)
          => (result = "err" /\ history = <<>> /\ bsp = EmptyBsp)
    /\ (bsp # EmptyBsp \/ Len(history) > 1) => header.version = 30

\* A file of another version has been turned away.
C1_Witness ==
    /\ header # NoHeader /\ header.version = 29
    /\ result = "err" /\ cause = "version" /\ bsp = EmptyBsp

\* The phases as the state machine names them, after Unopened.
LoadPhases ==
    <<"HeaderRead", "LumpsRead", "EntitiesParsed", "TexturesLoaded",
      "LightmapsLoaded", "DecalsLoaded", "VisibilityLoaded", "PostProcessed", "Ready">>

\* C2: the phases completed so far are always the first ones of header
\* read, lumps read, entities parsed, textures loaded, lightmaps loaded,
\* decals loaded, visibility loaded, post-processed, Ready, each once and in
\* that order; a running load stands at the last one completed, and Ready
\* (the Ok result) comes only with all of them complete.
C2_PhaseOrder ==
    /\ Len(history) <= Len(LoadPhases)
    /\ history = SubSeq(LoadPhases, 1, Len(history))
    /\ (pc # "Failed" /\ history # <<>>) => pc = history[Len(history)]
    /\ (pc = "Ready" \/ result = "ok") => history = LoadPhases

\* A load has gone through every phase and returned its map.
C2_Witness == pc = "Ready" /\ result = "ok" /\ history = LoadPhases

\* The extent of every lump the load reads lies inside the file.
ReadLumpsInsideFile ==
    \A t \in RecordLumpTypes \cup {LumpEntities, LumpLighting, LumpVisibility} :
       LumpOf(header, t).offset + LumpOf(header, t).length <= Len(file)

\* C3: a load whose read came up short (the file ended before the field
\* being decoded was complete) ends with an Err value, not a panic; and a
\* load that returns a map has read every lump in full.
C3_TruncatedIsError ==
    /\ cause = "eof" => result = "err"
    /\ result = "ok" => ReadLumpsInsideFile

\* The record lumps the load had to read to complete the phases it has.
LumpsReadSoFar ==
    IF "TexturesLoaded" \in Range(history) THEN RecordLumpTypes
    ELSE IF "LumpsRead" \in Range(history) THEN RecordLumpTypes \ {LumpTexinfo}
    ELSE {}

\* C4: once a phase that reads record lumps is complete, the byte length of
\* each of those lumps is an exact multiple of its record size (a load of a
\* file with a ragged lump has been rejected instead).
C4_RaggedLumpRejected ==
    \A t \in LumpsReadSoFar :
       LumpOf(header, t).length % SizeOf(MapLayout(t)) = 0

\* The little-endian reading of the field of type t at offset pos.
LittleEndianField(f, pos, t) ==
    LittleEndianValue(t, SubSeq(f, pos + 1, pos + Width(t)))

\* C5: the decoded header holds the little-endian reading of the file (the
\* version from bytes 0..3, then each lump's offset and length), so that a
\* file starting with 1E 00 00 00 has version 30; and the fields of the
\* decoded node records are the little-endian readings of their bytes.
C5_LittleEndian ==
    /\ header # NoHeader =>
          /\ header.version = LittleEndianField(file, 0, "i32")
          /\ SubSeq(file, 1, 4) = <<30, 0, 0, 0>> => header.version = 30
          /\ \A i \in 1..HeaderLumps :
                /\ header.lump[i].offset = LittleEndianField(file, 8 * i - 4, "i32")
                /\ header.lump[i].length = LittleEndianField(file, 8 * i, "i32")
    /\ "LumpsRead" \in Range(history) =>
          \A k \in 1..Len(bsp.nodes) :
             bsp.nodes[k] =
                Node([i \in 1..Len(NodeLayout) |->
                        LittleEndianField(file,
                            LumpOf(header, LumpNodes).offset
                               + (k - 1) * SizeOf(NodeLayout)
                               + FieldOffset(NodeLayout, i),
                            NodeLayout[i])])

\* The bytes of record k (from 0) of a lump of records of `size` bytes.
RecordBytes(f, lump, size, k) ==
    SubSeq(f, lump.offset + k * size + 1, lump.offset + (k + 1) * size)

\* C19: after a successful load, each of the nine record vectors holds
\* exactly lump.length / record-size records, and record k is the decode of
\* the record-size bytes that start at lump.offset + k * record-size.
C19_RecordsAsInFile ==
    result = "ok" =>
       \A i \in 1..Len(RecordLumps) :
          LET l == RecordLumps[i]
              lump == LumpOf(header, l.type)
              size == SizeOf(l.layout)
          IN /\ Len(bsp[l.name]) * size <= lump.length
             /\ lump.length < (Len(bsp[l.name]) + 1) * size
             /\ \A k \in 0..(Len(bsp[l.name]) - 1) :
                   bsp[l.name][k + 1]
                      = View(l.name,
                             from_reader(RecordBytes(file, lump, size, k), 0,
                                         l.layout).vals)

\* A map was returned whose record vectors hold several records, one of
\* them from a lump with a trailing part of a record.
C19_Witness ==
    /\ result = "ok"
    /\ Len(bsp.leaves) = 3 /\ Len(bsp.edges) = 2 /\ Len(bsp.vertices) = 2
    /\ \E i \in 1..Len(RecordLumps) :
          LumpOf(header, RecordLumps[i].type).length
             % SizeOf(RecordLumps[i].layout) # 0

-----------------------------------------------------------------------------
(* SpecPost: the post-processing of from_file (bsp.rs:272-310) on every    *)
(* list of at most MaxEntities entities, from the position the visibility  *)
(* phase leaves.                                                           *)

MaxEntities == 2

\* Classnames: the six of the allow-list, one outside it, one that only
\* starts like one of them.
PostClassnames ==
    {<<102, 117, 110, 99, 95, 100, 111, 111, 114, 95, 114, 111, 116, 97, 116, 105, 110, 103>>, <<102, 117, 110, 99, 95, 100, 111, 111, 114>>, <<102, 117, 110, 99, 95, 105, 108, 108, 117, 115, 105, 111, 110, 97, 114, 121>>, <<102, 117, 110, 99, 95, 119, 97, 108, 108>>, <<102, 117, 110, 99, 95, 98, 114, 101, 97, 107, 97, 98, 108, 101>>, <<102, 117, 110, 99, 95, 98, 117, 116, 116, 111, 110>>, <<108, 105, 103, 104, 116>>, <<102, 117, 110, 99, 95, 100, 111, 111, 114, 115>>}

\* A properties map from optional values (NoValue: the key is absent).
MkEntity(classname, model, origin, rendermode) ==
    {p \in {<<StrClassname, classname>>, <<StrModel, model>>, <<StrOrigin, origin>>,
            <<StrRendermode, rendermode>>} : p[2] # NoValue}

\* Entities with and without each of classname and model; and doors and
\* walls with a model, with and without origin and rendermode.
PostEntities ==
    {MkEntity(c, m, NoValue, NoValue) :
        c \in PostClassnames \cup {NoValue}, m \in {NoValue, <<42, 49>>}}
    \cup {MkEntity(c, <<42, 49>>, o, r) :
            c \in {<<102, 117, 110, 99, 95, 100, 111, 111, 114>>, <<102, 117, 110, 99, 95, 119, 97, 108, 108>>}, o \in {NoValue, <<48, 32, 48, 32, 48>>},
            r \in {NoValue, <<50>>, <<48>>, <<120>>}}

InitPost ==
    /\ bsp \in {[EmptyBsp EXCEPT !.entities = es] :
                  es \in UNION {[1..n -> PostEntities] : n \in 0..MaxEntities}}
    /\ pc = "VisibilityLoaded"
    /\ history = SubSeq(PhaseOrder, 2, PhaseIndex("VisibilityLoaded"))
    /\ file = <<>> /\ env = NoEnv /\ header = NoHeader
    /\ result = "none" /\ cause = ""
    /\ TreeIdle /\ VisIdle /\ EntIdle
    /\ CallIdle

NextPost == ClassifyEntities \/ Finish

SpecPost == InitPost /\ [][NextPost]_vars

\* The allow-list of brush classnames, as the format description gives it.
AllowList ==
    {<<102, 117, 110, 99, 95, 100, 111, 111, 114, 95, 114, 111, 116, 97, 116, 105, 110, 103>>, <<102, 117, 110, 99, 95, 100, 111, 111, 114>>, <<102, 117, 110, 99, 95, 105, 108, 108, 117, 115, 105, 111, 110, 97, 114, 121>>, <<102, 117, 110, 99, 95, 119, 97, 108, 108>>, <<102, 117, 110, 99, 95, 98, 114, 101, 97, 107, 97, 98, 108, 101>>, <<102, 117, 110, 99, 95, 98, 117, 116, 116, 111, 110>>}

\* Whether some property of the entity has the key.
HasKey(entity, key) == \E p \in entity : p[1] = key

BrushByDefinition(entity) ==
    /\ HasKey(entity, StrModel)
    /\ \E p \in entity : p[1] = StrClassname /\ p[2] \in AllowList

\* C11: an entity index put into brush_entities belongs to an entity with a
\* `model` property and a classname of the allow-list, an index put into
\* special_entities to an entity that lacks one of the two; and once the
\* classification is complete every entity is in the list its properties
\* call for.
C11_BrushClassification ==
    LET n == Len(bsp.entities) IN
    /\ \A k \in 1..Len(bsp.brush_entities) :
          /\ bsp.brush_entities[k] \in 0..(n - 1)
          /\ BrushByDefinition(bsp.entities[bsp.brush_entities[k] + 1])
    /\ \A k \in 1..Len(bsp.special_entities) :
          /\ bsp.special_entities[k] \in 0..(n - 1)
          /\ ~BrushByDefinition(bsp.entities[bsp.special_entities[k] + 1])
    /\ pc \in {"PostProcessed", "Ready"} =>
          \A i \in 0..(n - 1) :
             IF BrushByDefinition(bsp.entities[i + 1])
             THEN i \in Range(bsp.brush_entities)
             ELSE i \in Range(bsp.special_entities)

\* A load has classified a brush entity and a special entity that has a
\* model but a classname outside the allow-list.
C11_Witness ==
    /\ pc = "PostProcessed"
    /\ bsp.brush_entities # <<>>
    /\ \E k \in 1..Len(bsp.special_entities) :
          HasKey(bsp.entities[bsp.special_entities[k] + 1], StrModel)

\* How often the index i occurs in the list v.
Occurrences(v, i) == Cardinality({k \in 1..Len(v) : v[k] = i})

\* C29: after the post-processing of a load that did not fail, every entity
\* index 0 .. entities.len()-1 occurs exactly once in brush_entities and
\* special_entities taken together, special_entities is in ascending
\* order, and brush_entities after the partition step holds the indices the
\* classification loop pushed, each as often as it was pushed.
C29_IndicesPartitioned ==
    (pc \in {"PostProcessed", "Ready"} /\ result # "panic") =>
       LET n == Len(bsp.entities)
           pushed == ClassifyFrom(bsp, 0, <<>>, <<>>).brush
       IN
       /\ \A i \in 0..(n - 1) :
             Occurrences(bsp.brush_entities, i) + Occurrences(bsp.special_entities, i) = 1
       /\ Range(bsp.brush_entities) \cup Range(bsp.special_entities) \subseteq 0..(n - 1)
       /\ \A j, k \in 1..Len(bsp.special_entities) :
             j < k => bsp.special_entities[j] < bsp.special_entities[k]
       /\ Len(bsp.brush_entities) = Len(pushed)
       /\ \A i \in 0..(n - 1) :
             Occurrences(bsp.brush_entities, i) = Occurrences(pushed, i)

\* A load is ready in which the partition step moved the textured brush
\* entity 1 in front of brush entity 0.
C29_Witness ==
    /\ pc = "Ready" /\ result = "ok"
    /\ bsp.brush_entities = <<1, 0>>

-----------------------------------------------------------------------------
(* SpecBox: point_in_box on every point and pair of corners with           *)
(* coordinates 0..MaxCoord.                                                *)

MaxCoord == 2

Coords == [1..3 -> 0..MaxCoord]

InitBox ==
    /\ callIn \in [p : Coords, min : Coords, max : Coords]
    /\ callOut = [op |-> "idle"]
    /\ LoadIdle /\ TreeIdle /\ VisIdle /\ EntIdle

\* point_in_box(p, min, max), and the same call with the corners exchanged.
CallPointInBox ==
    /\ callOut.op = "idle"
    /\ callOut' = [op |-> "point_in_box",
                   value |-> point_in_box(callIn.p, callIn.min, callIn.max),
                   exchanged |-> point_in_box(callIn.p, callIn.max, callIn.min)]
    /\ UNCHANGED <<callIn, loadVars, treeVars, visVars, entVars>>

NextBox == CallPointInBox

SpecBox == InitBox /\ [][NextBox]_vars

\* p lies between a and b on every axis, whichever of the two is the
\* smaller on that axis; the bounds are included.
BetweenOnEveryAxis(p, a, b) ==
    \A k \in 1..3 : (a[k] <= p[k] /\ p[k] <= b[k]) \/ (b[k] <= p[k] /\ p[k] <= a[k])

\* a <= p <= b on every axis.
InOrderedBox(p, a, b) == \A k \in 1..3 : a[k] <= p[k] /\ p[k] <= b[k]

\* C17: point_in_box gives the same answer with the corners exchanged,
\* and it is true exactly when the point lies componentwise between the two
\* corners, bounds included.
C17_PointInBox ==
    callOut.op = "point_in_box" =>
       /\ callOut.value = callOut.exchanged
       /\ callOut.value = BetweenOnEveryAxis(callIn.p, callIn.min, callIn.max)

\* C17 as amended: point_in_box gives the same answer with the corners
\* exchanged, and it is true exactly when min <= p <= max on every axis or
\* max <= p <= min on every axis (one orientation for all three axes),
\* bounds included.
C17_EitherOrientation ==
    callOut.op = "point_in_box" =>
       /\ callOut.value = callOut.exchanged
       /\ callOut.value = (\/ InOrderedBox(callIn.p, callIn.min, callIn.max)
                           \/ InOrderedBox(callIn.p, callIn.max, callIn.min))

\* A point on the boundary of a box whose corners come in the order
\* (max, min) has been found inside.
C17_Witness ==
    /\ callOut.op = "point_in_box" /\ callOut.value
    /\ callIn.min # callIn.max
    /\ InOrderedBox(callIn.p, callIn.max, callIn.min)
    /\ callIn.p[1] = callIn.min[1]

-----------------------------------------------------------------------------
(* SpecTex: BSP::from_file on maps that declare textures, with a           *)
(* worldspawn entity naming texture archives.                              *)

\* The most textures a generated map declares.
MaxTextures == 2

\* The text of one entity block, well spaced: { "k" "v" ... }.
EntityText(pairs) ==
    <<LBrace>>
      \o Flatten([k \in 1..Len(pairs) |->
                    <<32, Quote>> \o pairs[k][1] \o <<Quote, 32, Quote>>
                       \o pairs[k][2] \o <<Quote>>])
      \o <<32, RBrace>>

\* The declared textures: external ones (first mip offset 0) with a short
\* and with a full-width name, and one stored in the map.
TexDecls ==
    {[name |-> <<70, 79, 79>>, internal |-> FALSE],
     [name |-> <<65, 66, 67, 68, 69, 70, 71, 72, 73, 74, 75, 76, 77, 78, 79, 80>>, internal |-> FALSE],
     [name |-> <<65, 66, 67, 68, 69, 70, 71, 72, 73, 74, 75, 76, 77, 78, 79, 80>>, internal |-> TRUE]}

\* The bytes a declared texture occupies in the texture lump.
TexBytes(d) ==
    IF d.internal THEN RawTexture(d.name, <<2, 2>>, LAMBDA i : 0, <<10, 20, 30>>)
    ELSE MipTexBytes(PadName(d.name), 16, 16, <<0, 0, 0, 0>>)

\* The texture lump: the count, one offset per texture (both little-endian)
\* and the textures one after the other.
TexLump(ds) ==
    LET first == Width("u32") + Len(ds) * Width("i32")
        at(k) == first + SumSeq([j \in 1..(k - 1) |-> Len(TexBytes(ds[j]))])
    IN EncodeValue("LE", "u32", Len(ds))
         \o Flatten([k \in 1..Len(ds) |-> EncodeValue("LE", "i32", at(k))])
         \o Flatten([k \in 1..Len(ds) |-> TexBytes(ds[k])])

\* The entity lumps: no entity, a worldspawn without `wad`, and worldspawns
\* naming one archive, two archives, and an archive without a directory.
TexWadA == <<118, 97, 108, 118, 101, 47, 97, 46, 119, 97, 100>>
TexWadB == <<118, 97, 108, 118, 101, 47, 98, 46, 119, 97, 100>>
TexTexts ==
    {<<>>,
     EntityText(<<<<StrClassname, StrWorldspawn>>>>),
     EntityText(<<<<StrClassname, StrWorldspawn>>, <<StrWad, <<92, 118, 97, 108, 118, 101, 92, 97, 46, 119, 97, 100>>>>>>),
     EntityText(<<<<StrClassname, StrWorldspawn>>, <<StrWad, <<92, 118, 97, 108, 118, 101, 92, 97, 46, 119, 97, 100, 59, 92, 118, 97, 108, 118, 101, 92, 98, 46, 119, 97, 100>>>>>>),
     EntityText(<<<<StrClassname, StrWorldspawn>>, <<StrWad, <<97, 46, 119, 97, 100>>>>>>)}

\* A map with a tree, without lighting and visibility bytes.
TexContent == [FullContent EXCEPT !.vis = <<>>, !.light = <<>>, !.text = <<>>]

TexMapFiles ==
    {MapFileOf("BE", BspVersion,
               [MapLumpBytes("BE", TexContent, -1, 0)
                  EXCEPT ![LumpEntities] = text, ![LumpTextures] = TexLump(ds)]) :
        text \in TexTexts,
        ds \in UNION {[1..n -> TexDecls] : n \in 0..MaxTextures}}

\* One entry of a texture archive, stored plain or compressed.
TexEntry(name, compressed) ==
    [name |-> name, compressed |-> compressed, dummy |-> 0, pos |-> 44, size |-> 40]

\* The files below WAD_DIR: the two decal archives, and the archives the
\* maps name: the first absent, empty or holding a texture; the second
\* absent or empty.
TexFiles ==
    {DecalFiles(Range(DecalWadPaths)) @@ a @@ b :
        a \in {<<>>} \cup {[p \in {TexWadA} |-> WadFile(es)] :
                             es \in {<<>>, <<TexEntry(<<70, 79, 79>>, 0)>>,
                                     <<TexEntry(<<65, 66, 67, 68, 69, 70, 71, 72, 73, 74, 75, 76, 77, 78, 79, 80>>, 0)>>, <<TexEntry(<<65, 66, 67, 68, 69, 70, 71, 72, 73, 74, 75, 76, 77, 78, 79, 80>>, 1)>>}},
        b \in {<<>>, [p \in {TexWadB} |-> WadFile(<<>>)]}}

InitTex ==
    /\ file \in TexMapFiles
    /\ env \in [exists : {TRUE}, wads : TexFiles, overflow_checks : {FALSE}]
    /\ pc = "Unopened" /\ header = NoHeader /\ bsp = EmptyBsp
    /\ result = "none" /\ cause = "" /\ history = <<>>
    /\ TreeIdle /\ VisIdle /\ EntIdle
    /\ CallIdle

SpecTex == InitTex /\ [][Next]_vars

\* The textures the map declares, read off the file: the MipTex records of
\* the texture lump.
Declared ==
    ReadMipTextures(file, LumpOf(header, LumpTextures).offset,
                    TextureHeader_from_reader(file, LumpOf(header, LumpTextures).offset)
                       .header.mip_texture_count)

\* The archives the map's worldspawn names, as opened for the texture phase.
Opened == WorldWads(bsp, find_entity(bsp.entities, StrWorldspawn), env.wads)

\* Texture i (from 1) is external and none of the opened archives holds it.
Missed(i) ==
    /\ Declared.textures[i].offsets[1] = 0
    /\ \A k \in 1..Len(Opened.wads) :
          from_utf8_lossy(Declared.textures[i].name) \notin DOMAIN Opened.wads[k].dir_entries

\* from_file ended inside the texture block.
FailedInTextures ==
    pc = "Failed" /\ history # <<>> /\ history[Len(history)] = PhaseBefore("TexturesLoaded")

DecalOrigins ==
    {NoValue, <<49, 32, 49, 32, 49>>, <<48, 32, 49, 32, 49>>, <<52, 32, 52, 32, 52>>, <<57, 32, 57, 32, 57>>, <<49, 32, 49>>, <<120, 32, 49, 32, 49>>}

\* The name the generated decals ask for.
DecalName == <<70, 79, 79>>

DecalEntity(origin, texture) ==
    {p \in {<<StrClassname, StrInfodecal>>, <<StrOrigin, origin>>,
            <<StrTexture, texture>>} : p[2] # NoValue}

DecalEntities ==
    {DecalEntity(o, t) : o \in DecalOrigins, t \in {NoValue, DecalName}}
       \cup {{<<StrClassname, StrWorldspawn>>}}

\* The map after the lightmap block: node 0 over leaves 1 (box 0..2) and 2
\* (box 3..5), leaf 1 with `marks` mark surfaces; face 0 on the plane
\* x = 1 (its first surface edge is +1), face 1 on the plane y = 1 (its
\* first surface edge is -1); faces have no edges of their own
\* (edge_count 0), so the texture block passed them; `slots` textures were
\* declared and missed.
DecalMap(es, marks, slots) ==
    [EmptyBsp EXCEPT
       !.entities = es,
       !.nodes = <<MkNode(<<-2, -3>>, [lower |-> <<0, 0, 0>>, upper |-> <<5, 5, 5>>])>>,
       !.leaves = <<MkLeaf(-2, [lower |-> <<0, 0, 0>>, upper |-> <<0, 0, 0>>]),
                    [MkLeaf(-1, [lower |-> <<0, 0, 0>>, upper |-> <<2, 2, 2>>])
                       EXCEPT !.mark_surface_count = marks],
                    MkLeaf(-1, [lower |-> <<3, 3, 3>>, upper |-> <<5, 5, 5>>])>>,
       !.mark_surfaces = <<0, 1>>,
       !.faces = <<Face(<<0, 0, 0, 0, 0, 0, 0, 0, 0, 0>>),
                   Face(<<1, 0, 1, 0, 0, 0, 0, 0, 0, 0>>)>>,
       !.face_tex_coords = [k \in 1..2 |-> [tex_coords |-> <<>>, lightmap_coords |-> <<>>]],
       !.planes = <<Plane(<<1, 0, 0, 1, 0>>), Plane(<<0, 1, 0, 1, 1>>)>>,
       !.surface_edges = <<1, -1>>,
       !.edges = <<Edge(<<0, 0>>), Edge(<<0, 1>>)>>,
       !.vertices = <<<<1, 0, 0>>, <<0, 1, 0>>>>,
       !.texture_infos = <<TextureInfo(<<0, 1, 0, 0, 0, 0, 1, 0, 0, 0>>)>>,
       !.texture_header = [mip_texture_count |-> slots],
       !.mip_texture_offsets = [k \in 1..slots |-> 8],
       !.mip_textures =
          [k \in 1..slots |->
             MipTex_from_reader(MipTexBytes(PadName(DecalName), 16, 16, <<0, 0, 0, 0>>),
                                0).tex],
       !.m_textures = [k \in 1..slots |-> MipmapTexture_new]]

\* What valve/decals.wad holds: nothing, the decal's texture as a plain
\* entry, or as a compressed one.
DecalArchives ==
    {<<>>, <<TexEntry(DecalName, 0)>>, <<TexEntry(DecalName, 1)>>}

\* A header whose lighting and visibility lumps are empty.
DecalHeader ==
    [version |-> BspVersion, lump |-> [k \in 1..HeaderLumps |-> [offset |-> 0, length |-> 0]]]

\* callIn keeps the entries valve/decals.wad was built from; cstrike's
\* archive is empty or cannot be opened.
InitDecal ==
    /\ \E n \in 0..MaxEntities, marks \in 0..2, slots \in 0..1 :
          \E es \in [1..n -> DecalEntities] : bsp = DecalMap(es, marks, slots)
    /\ callIn \in [entries : DecalArchives]
    /\ \E second \in {1, 2} :
          env = [exists |-> TRUE, overflow_checks |-> FALSE,
                 wads |-> [k \in {DecalWadPaths[i] : i \in 1..second} |->
                             IF k = DecalWadPaths[1] THEN WadFile(callIn.entries)
                             ELSE WadFile(<<>>)]]
    /\ callOut = [op |-> "idle"]
    /\ pc = PhaseBefore("DecalsLoaded")
    /\ history = SubSeq(PhaseOrder, 2, PhaseIndex("DecalsLoaded") - 1)
    /\ file = <<>> /\ header = DecalHeader
    /\ result = "none" /\ cause = ""
    /\ TreeIdle /\ VisIdle /\ EntIdle

NextDecal == LoadDecals \/ LoadVisibility \/ ClassifyEntities \/ Finish

SpecDecal == InitDecal /\ [][NextDecal]_vars

\* The words of an infodecal entity's origin (<<>> without one).
OriginWords(e) ==
    IF find_property(e, StrOrigin) = NoValue THEN <<>>
    ELSE SplitOn(find_property(e, StrOrigin), 32)

\* The entity is skipped, not fatal: its origin is absent, has another
\* number of words than three, or three numbers.
OriginWellFormed(e) ==
    Len(OriginWords(e)) = 3 => \A k \in 1..3 : ParsesAsF32(OriginWords(e)[k])

\* The origin of an entity with three numbers.
OriginOf(e) == [k \in 1..3 |-> F32Value(OriginWords(e)[k])]

\* Entity e qualifies for a decal: its origin lies in a leaf of the tree
\* that has a mark-surface face whose plane contains the origin, and its
\* texture is stored as a plain entry of valve/decals.wad.
Qualifies(e) ==
    /\ Len(OriginWords(e)) = 3 /\ OriginWellFormed(e)
    /\ LET l == find_leaf(bsp.nodes, bsp.leaves, OriginOf(e), 0) IN
       /\ l.kind = "some" /\ InBounds(bsp.leaves, l.leaf)
       /\ \E j \in 0..(bsp.leaves[l.leaf + 1].mark_surface_count - 1) :
             LET face == bsp.faces[bsp.mark_surfaces[bsp.leaves[l.leaf + 1].first_mark_surface + j + 1] + 1]
             IN point_in_plane(OriginOf(e), bsp.planes[face.plane_index + 1].normal,
                               Dot(bsp.planes[face.plane_index + 1].normal,
                                   FaceVertex(bsp, face, bsp.surface_edges[face.first_edge_index + 1])))
    /\ find_property(e, StrTexture) # NoValue
    /\ \E k \in StoredAs(callIn.entries, find_property(e, StrTexture)) :
          callIn.entries[k].compressed = 0

\* The infodecal entities of the map.
InfoDecals == find_entities(bsp.entities, StrInfodecal)

\* from_file ended inside the decal block.
FailedInDecals ==
    pc = "Failed" /\ history[Len(history)] = PhaseBefore("DecalsLoaded")

\* C18: load_decals appends at most one Decal per infodecal entity and one
\* for each entity whose origin lies in a leaf with a mark-surface face
\* whose plane contains it and whose texture a decal archive holds (the
\* block does not fail when both archives open and every origin is
\* well-formed); the corners of a decal are symmetric about the origin of
\* an entity (`vec` holds them doubled).
C18_OneDecalPerInfodecal ==
    /\ "DecalsLoaded" \in Range(history) =>
          /\ Len(bsp.m_decals) <= Len(InfoDecals)
          /\ Len(bsp.m_decals) >=
                Cardinality({i \in Range(InfoDecals) : Qualifies(bsp.entities[i])})
          /\ \A d \in Range(bsp.m_decals) :
                \E i \in Range(InfoDecals) :
                   /\ Len(OriginWords(bsp.entities[i])) = 3
                   /\ \A x \in 1..3 :
                         /\ d.vec[1][x] + d.vec[3][x] = 4 * OriginOf(bsp.entities[i])[x]
                         /\ d.vec[2][x] + d.vec[4][x] = 4 * OriginOf(bsp.entities[i])[x]
    /\ (/\ DOMAIN env.wads = Range(DecalWadPaths)
        /\ \A i \in Range(InfoDecals) : OriginWellFormed(bsp.entities[i])
        /\ \E i \in Range(InfoDecals) : Qualifies(bsp.entities[i]))
          => ~FailedInDecals


(* C21: the visibility block of from_file (bsp.rs:251-268), checked in     *)
(* Spec.                                                                   *)

\* The visibility lump of the loaded header.
VisLump == LumpOf(header, LumpVisibility)

\* from_file ended inside the visibility block.
FailedInVisibility ==
    pc = "Failed" /\ history # <<>>
       /\ history[Len(history)] = PhaseBefore("VisibilityLoaded")

\* The visibility lump can be read and the tree can be counted, with a
\* leaf for every counted index.
VisLoadable ==
    /\ header # NoHeader
    /\ VisLump.length > 0 /\ VisLump.offset >= 0
    /\ CanRead(file, VisLump.offset, VisLump.length)
    /\ count_vis_leaves(bsp.nodes, bsp.leaves, 0).kind = "ok"
    /\ count_vis_leaves(bsp.nodes, bsp.leaves, 0).n < Len(bsp.leaves)

\* C21: after the visibility block of a map with a non-empty visibility
\* lump, vis_lists has count_vis_leaves(0) entries and entry i is the
\* decompressed PVS of leaf i + 1 when that leaf has a vis_offset; with an
\* empty lump vis_lists stays empty; the block does not end the load.
C21_VisListsPerLeaf ==
    /\ ("VisibilityLoaded" \in Range(history) /\ VisLump.length > 0) =>
          /\ Len(bsp.vis_lists) = count_vis_leaves(bsp.nodes, bsp.leaves, 0).n
          /\ \A i \in 1..Len(bsp.vis_lists) :
                bsp.leaves[i + 1].vis_offset >= 0 =>
                   bsp.vis_lists[i] =
                      decompress_vis(bsp.leaves, Len(bsp.vis_lists), i,
                                     Slice(file, VisLump.offset,
                                           VisLump.offset + VisLump.length)).pvs
    /\ ("VisibilityLoaded" \in Range(history) /\ VisLump.length <= 0) =>
          bsp.vis_lists = <<>>
    /\ VisLoadable => ~FailedInVisibility


(* C22: the origin override of brush entities (bsp.rs:272-297), checked in *)
(* SpecPost.                                                               *)

\* The entity is a brush entity whose `model` is `*` and a decimal number
\* and whose `origin` is three numbers.
HasOriginOverride(entity) ==
    /\ is_brush_entity(entity) /\ HasKey(entity, StrOrigin)
    /\ Len(find_property(entity, StrModel)) >= 2
    /\ find_property(entity, StrModel)[1] = 42
    /\ \A k \in 2..Len(find_property(entity, StrModel)) :
          IsDigit(find_property(entity, StrModel)[k])
    /\ Len(SplitWhitespace(find_property(entity, StrOrigin))) = 3
    /\ \A k \in 1..3 : ParsesAsF32(SplitWhitespace(find_property(entity, StrOrigin))[k])

\* The number after the `*` of the entity's `model`.
ModelNumber(entity) == DigitsValue(Tail(find_property(entity, StrModel)))

\* The three numbers of the entity's `origin`.
OverrideOrigin(entity) ==
    [k \in 1..3 |-> F32Value(SplitWhitespace(find_property(entity, StrOrigin))[k])]

\* from_file ended inside the post-processing.
FailedInPost ==
    pc = "Failed" /\ history # <<>>
       /\ history[Len(history)] = PhaseBefore("PostProcessed")

\* Nothing but an origin override can end the post-processing: every
\* brush entity with an origin is well-formed and every rendermode is a
\* number.
OnlyOverrides ==
    \A i \in 1..Len(bsp.entities) :
       /\ (is_brush_entity(bsp.entities[i]) /\ HasKey(bsp.entities[i], StrOrigin))
             => HasOriginOverride(bsp.entities[i])
       /\ HasKey(bsp.entities[i], StrRendermode)
             => ParseUsize(find_property(bsp.entities[i], StrRendermode)).ok

\* C22: after the post-processing, for every brush entity with model "*N"
\* and origin "x y z" the stored origin of Model N is (x, y, z); the
\* post-processing of such entities completes.
C22_OriginOverride ==
    /\ pc \in {"PostProcessed", "Ready"} =>
          \A i \in 1..Len(bsp.entities) :
             HasOriginOverride(bsp.entities[i]) =>
                /\ InBounds(bsp.models, ModelNumber(bsp.entities[i]))
                /\ bsp.models[ModelNumber(bsp.entities[i]) + 1].model.origin
                      = OverrideOrigin(bsp.entities[i])
    /\ OnlyOverrides => ~FailedInPost


-----------------------------------------------------------------------------
(* SpecFace: the face loops of load_textures and load_light_maps and the   *)
(* vertex pick of load_decals, one after the other as from_file runs       *)
(* them, on generated maps of at most MaxFaces faces.                      *)

MaxFaces == 2

\* The lengths of the generated lighting lumps.
LightLengths == {5, 8}

\* A face of the generated maps.
FaceOf(first, count, info, style, offset) ==
    Face(<<0, 0, first, count, info, style, 0, 0, 0, offset>>)

\* The first face varies in every field the loops read; each later face is
\* one of four.
FirstFaces ==
    {FaceOf(first, count, info, style, offset) :
        first \in 0..1, count \in 0..2, info \in 0..1, style \in {0, 1, 255},
        offset \in 0..1}

SecondFaces ==
    {FaceOf(0, 1, 0, 0, 0), FaceOf(1, 2, 1, 0, 0), FaceOf(0, 1, 0, 255, 0),
     FaceOf(1, 1, 1, 1, 0)}

\* Surface edges that read edges forward, reversed, and edge 0.
FaceSurfaceEdges == {<<1, 2, 1>>, <<1, -2, 1>>, <<0, 1, 2>>, <<2, 1, -1>>}

\* A map with three vertices 16 units apart, three edges, two texture
\* infos over one 16 x 16 MipTex, and one leaf whose mark surfaces are all
\* the faces.
FaceMap(faces, surface_edges) ==
    [EmptyBsp EXCEPT
       !.faces = faces,
       !.surface_edges = surface_edges,
       !.edges = <<Edge(<<0, 1>>), Edge(<<1, 2>>), Edge(<<2, 0>>)>>,
       !.vertices = <<<<0, 0, 0>>, <<16, 0, 0>>, <<16, 16, 0>>>>,
       !.planes = <<Plane(<<0, 0, 1, 0, 0>>)>>,
       !.texture_infos = <<TextureInfo(<<1, 0, 0, 0, 0, 1, 0, 0, 0, 0>>),
                           TextureInfo(<<0, 1, 0, 0, 1, 0, 0, 0, 0, 0>>)>>,
       !.texture_header = [mip_texture_count |-> 1],
       !.mip_texture_offsets = <<8>>,
       !.mip_textures =
          <<MipTex_from_reader(MipTexBytes(PadName(<<65>>), 16, 16, <<0, 0, 0, 0>>),
                               0).tex>>,
       !.m_textures = <<MipmapTexture_new>>,
       !.mark_surfaces = [k \in 1..Len(faces) |-> k - 1],
       !.leaves = <<[MkLeaf(-1, [lower |-> <<0, 0, 0>>, upper |-> <<16, 16, 0>>])
                       EXCEPT !.mark_surface_count = Len(faces)]>>]

FaceMaps ==
    {FaceMap(faces, se) :
        faces \in {<<f>> \o rest :
                      f \in FirstFaces,
                      rest \in UNION {[1..n -> SecondFaces] : n \in 0..(MaxFaces - 1)}},
        se \in FaceSurfaceEdges}

\* callIn holds the map, the lighting bytes and the build; callOut what
\* each of the three loops gave, "idle" before it ran.
InitFace ==
    /\ callIn \in [b : FaceMaps,
                   data : {[k \in 1..n |-> k] : n \in LightLengths},
                   checked : BOOLEAN]
    /\ callOut = [op |-> "idle"]
    /\ LoadIdle /\ TreeIdle /\ VisIdle /\ EntIdle

\* The face loop of load_textures (bsp.rs:431-457) on the map; `picked`
\* holds the vertex read for every edge of every face.
CallLoadTexCoords ==
    /\ callOut.op = "idle"
    /\ callOut' =
          [op |-> "tex_coords",
           tex |-> TexCoordFaces(callIn.b, 0, <<>>),
           picked |->
              [i \in 1..Len(callIn.b.faces) |->
                 [j \in 1..callIn.b.faces[i].edge_count |->
                    IF TexCoordIndexed(callIn.b, callIn.b.faces[i], j - 1)
                    THEN TexCoordVertex(callIn.b, callIn.b.faces[i], j - 1)
                    ELSE <<>>]]]
    /\ UNCHANGED <<loadVars, treeVars, visVars, entVars, callIn>>

\* load_light_maps (bsp.rs:568-646) on the map the texture loop left.
CallLoadLightMaps ==
    /\ callOut.op = "tex_coords" /\ callOut.tex.kind = "ok"
    /\ callOut' =
          [op |-> "load_light_maps",
           tex_picked |-> callOut.picked,
           out |-> load_light_maps(
                      [callIn.b EXCEPT !.face_tex_coords = callOut.tex.face_tex_coords],
                      callIn.data, Len(callIn.data), callIn.checked),
           picked |->
              [i \in 1..Len(callIn.b.faces) |->
                 [j \in 1..callIn.b.faces[i].edge_count |->
                    IF LightSkipped(callIn.b.faces[i]) THEN <<>>
                    ELSE IF LightEdgeIndexed(callIn.b, callIn.b.faces[i], j - 1)
                    THEN LightVertex(callIn.b, callIn.b.faces[i], j - 1)
                    ELSE <<>>]]]
    /\ UNCHANGED <<loadVars, treeVars, visVars, entVars, callIn>>

\* bsp.rs:515-524 of load_decals on every mark surface of the leaf: the
\* vertex the plane distance of the face is taken from.
CallDecalVertex ==
    /\ callOut.op = "load_light_maps" /\ callOut.out.kind = "ok"
    /\ callOut' =
          [op |-> "decal_vertex",
           tex_picked |-> callOut.tex_picked,
           light_picked |-> callOut.picked,
           bsp |-> callOut.out.bsp,
           picked |->
              [j \in 1..callIn.b.leaves[1].mark_surface_count |->
                 IF FaceIndexed(callIn.b, callIn.b.leaves[1], j - 1)
                 THEN FaceVertex(callIn.b, callIn.b.faces[callIn.b.mark_surfaces[j] + 1],
                                 callIn.b.surface_edges[
                                    callIn.b.faces[callIn.b.mark_surfaces[j] + 1]
                                       .first_edge_index + 1])
                 ELSE <<>>]]
    /\ UNCHANGED <<loadVars, treeVars, visVars, entVars, callIn>>

NextFace == CallLoadTexCoords \/ CallLoadLightMaps \/ CallDecalVertex

SpecFace == InitFace /\ [][NextFace]_vars


\* The face is unlit by the format: style slot 0 is 0xFF, or the lightmap
\* offset is below -1.
Unlit(face) == face.styles[1] = 255 \/ face.lightmap_offset < -1

\* The size of a face's lightmap in texels: the extents of its vertices in
\* texture space, at 16 units per texel.
FaceTexels(b, face) ==
    LET info == b.texture_infos[face.texture_info + 1]
        us == {Dot(info.s, LightVertex(b, face, j)) + info.s_shift :
                 j \in 0..(face.edge_count - 1)}
        vs == {Dot(info.t, LightVertex(b, face, j)) + info.t_shift :
                 j \in 0..(face.edge_count - 1)}
    IN [width |-> CeilDiv16(SetMax(us)) - FloorDiv16(SetMin(us)) + 1,
        height |-> CeilDiv16(SetMax(vs)) - FloorDiv16(SetMin(vs)) + 1]

\* C23: after load_light_maps, m_lightmaps holds one Image per face, at the
\* face's index: a zero-size placeholder exactly for the unlit faces, and
\* for a lit face an image of the face's size in texels with 3 bytes per
\* texel.
C23_LightmapPerFace ==
    (callOut.op = "load_light_maps" /\ callOut.out.kind = "ok") =>
       LET b == callOut.out.bsp IN
       /\ Len(b.m_lightmaps) = Len(b.faces)
       /\ \A i \in 1..Len(b.faces) :
             IF Unlit(b.faces[i])
             THEN b.m_lightmaps[i].width = 0 /\ b.m_lightmaps[i].height = 0
             ELSE /\ b.faces[i].edge_count > 0 =>
                        /\ b.m_lightmaps[i].width = FaceTexels(b, b.faces[i]).width
                        /\ b.m_lightmaps[i].height = FaceTexels(b, b.faces[i]).height
                  /\ b.m_lightmaps[i].width > 0 /\ b.m_lightmaps[i].height > 0
                  /\ b.m_lightmaps[i].channels = 3
                  /\ Len(b.m_lightmaps[i].data)
                        = 3 * b.m_lightmaps[i].width * b.m_lightmaps[i].height


\* The vertex the format gives for a surface edge: vertex 0 of edge e for
\* a positive e, vertex 1 of edge -e for a negative one.
SurfaceEdgeVertex(b, e) ==
    IF e > 0 THEN b.vertices[b.edges[e + 1].vertex_index[1] + 1]
    ELSE b.vertices[b.edges[1 - e].vertex_index[2] + 1]

\* C26: once the three loops have run, for every face and every j below
\* its edge count the texture coordinates and the lightmap (of a face that
\* gets one) were computed from the same vertex, for j = 0 the decal
\* plane distance too, and for a surface edge other than 0 that vertex is
\* the one the format gives for surface_edges[first_edge_index + j].
C26_SameVertexForEdge ==
    callOut.op = "decal_vertex" =>
       \A i \in 1..Len(callIn.b.faces) :
          \A j \in 1..callIn.b.faces[i].edge_count :
             LET e == callIn.b.surface_edges[callIn.b.faces[i].first_edge_index + j] IN
             /\ ~LightSkipped(callIn.b.faces[i]) =>
                   callOut.tex_picked[i][j] = callOut.light_picked[i][j]
             /\ j = 1 => callOut.picked[i] = callOut.tex_picked[i][j]
             /\ e # 0 => callOut.tex_picked[i][j] = SurfaceEdgeVertex(callIn.b, e)


-----------------------------------------------------------------------------
(* SpecAlpha: apply_alpha_sections (wad.rs:244-346) on images of at most   *)
(* MaxSide texels a side, and the neighbour reads of its scan for a key    *)
(* texel.                                                                  *)

MaxSide == 4

\* The reads wad.rs:289-320 make for the key texel (x, y) of a width x
\* height image, in the order of the code: each is the texel index the
\* pixel index is computed from and the macro that reads it.  x and y are
\* usize, so `x >= 0`, `y >= 0` and `x < width` always hold; an index
\* computed from y - 1 at y = 0 is negative here (the subtraction
\* underflows).
AlphaReads(width, height, x, y) ==
    SelectSeq(
       <<[on |-> x > 0 /\ y > 0, at |-> (y - 1) * width + (x - 1), by |-> "corner"],
         [on |-> TRUE, at |-> (y - 1) * width + x, by |-> "absolute"],
         [on |-> y > 0, at |-> (y - 1) * width + (x + 1), by |-> "corner"],
         [on |-> x > 0, at |-> y * width + (x + 1), by |-> "absolute"],
         [on |-> x < width - 1, at |-> y * width + (x + 1), by |-> "absolute"],
         [on |-> x > 0 /\ y < height - 1, at |-> (y + 1) * width + (x - 1),
          by |-> "corner"],
         [on |-> y < height - 1, at |-> (y + 1) * width + x, by |-> "absolute"],
         [on |-> x < width - 1 /\ y < height - 1, at |-> (y + 1) * width + (x + 1),
          by |-> "corner"]>>,
       LAMBDA r : r.on)

\* The scan of wad.rs:249-332 at a key texel: the reads up to the first
\* one outside the image, which panics (an underflow in a build with
\* overflow checks, an index out of bounds in one without).
AlphaScan(width, height, x, y) ==
    LET reads == AlphaReads(width, height, x, y)
        bad == {k \in 1..Len(reads) : reads[k].at < 0 \/ reads[k].at >= width * height}
    IN IF bad = {} THEN [kind |-> "ok", reads |-> reads]
       ELSE [kind |-> "panic", reads |-> SubSeq(reads, 1, SetMin(bad))]

\* An image of blue key texels and black texels.
AlphaImage(width, height, keys) ==
    [channels |-> 4, width |-> width, height |-> height,
     data |-> [k \in 1..(width * height * 4) |->
                 IF (k - 1) % 4 = 3 THEN 255
                 ELSE IF (k - 1) % 4 = 2 /\ ((k - 1) \div 4) \in keys THEN 255
                 ELSE 0]]

\* callIn holds an image with one key texel (x, y), or no texel at all.
InitAlpha ==
    /\ \E width, height \in 0..MaxSide :
          \E x \in 0..Max2(width - 1, 0), y \in 0..Max2(height - 1, 0) :
             callIn = [img |-> AlphaImage(width, height,
                                          IF width * height = 0 THEN {}
                                          ELSE {y * width + x}),
                       x |-> x, y |-> y]
    /\ callOut = [op |-> "idle"]
    /\ LoadIdle /\ TreeIdle /\ VisIdle /\ EntIdle

\* apply_alpha_sections(img).
CallApplyAlphaSections ==
    /\ callOut.op = "idle"
    /\ callOut' = [op |-> "apply_alpha_sections", out |-> apply_alpha_sections(callIn.img)]
    /\ UNCHANGED <<loadVars, treeVars, visVars, entVars, callIn>>

\* The scan of the function at the key texel of the image.
CallAlphaScan ==
    /\ callOut.op \in {"idle", "apply_alpha_sections"}
    /\ callIn.img.width * callIn.img.height > 0
    /\ callOut' = [op |-> "scan",
                   out |-> AlphaScan(callIn.img.width, callIn.img.height,
                                     callIn.x, callIn.y)]
    /\ UNCHANGED <<loadVars, treeVars, visVars, entVars, callIn>>

NextAlpha == CallApplyAlphaSections \/ CallAlphaScan

SpecAlpha == InitAlpha /\ [][NextAlpha]_vars

\* C24: the scan of a key texel (x, y) reads only texels of the image that
\* are among its 8 neighbours (same or adjacent column and row: no value
\* from the opposite border), computes no index outside the image, and
\* reads no texel twice; and apply_alpha_sections completes on the image.
C24_NeighboursInRange ==
    /\ callOut.op = "scan" =>
          LET w == callIn.img.width  reads == callOut.out.reads IN
          /\ callOut.out.kind = "ok"
          /\ \A k \in 1..Len(reads) :
                /\ reads[k].at >= 0 /\ reads[k].at < w * callIn.img.height
                /\ reads[k].at # callIn.y * w + callIn.x
                /\ (reads[k].at % w) - callIn.x \in {-1, 0, 1}
                /\ (reads[k].at \div w) - callIn.y \in {-1, 0, 1}
          /\ \A j, k \in 1..Len(reads) : j # k => reads[j].at # reads[k].at
    /\ callOut.op = "apply_alpha_sections" => callOut.out.kind = "ok"


\* C25: every Decal of load_decals points at a texture appended for the
\* decals (not at one of the map's declared textures), decals of one
\* texture name share the index and decals of different names do not, and
\* no name is asked of the decal archives twice.
C25_DecalTextureCached ==
    "DecalsLoaded" \in Range(history) =>
       /\ \A k \in 1..Len(bsp.m_decals) :
             /\ bsp.m_decals[k].tex_index >= bsp.texture_header.mip_texture_count
             /\ bsp.m_decals[k].tex_index < Len(bsp.m_textures)
       /\ Len(bsp.m_textures) - bsp.texture_header.mip_texture_count
             <= Cardinality(Range(callOut.fetched))
       /\ \A j, k \in 1..Len(callOut.fetched) :
             j # k => callOut.fetched[j] # callOut.fetched[k]


-----------------------------------------------------------------------------
(* SpecCycle: find_leaf and count_vis_leaves on every node array of at     *)
(* most MaxNodes nodes, those in which a node is reachable from itself     *)
(* included.                                                               *)

\* The children a node of an array of n nodes may name: an encoded leaf or
\* any node of the array.
AnyChild(n) == {BitNot(l) : l \in 0..(Len(TreeLeaves) - 1)} \cup (0..(n - 1))

AnyNodeArrays ==
    UNION {
      {ns \in [1..n -> {MkNode(<<a, b>>, box) :
                          a \in AnyChild(n), b \in AnyChild(n), box \in Boxes}] :
          ns[1].lower = BoxA.lower}
      : n \in 1..MaxNodes}

InitCycle ==
    /\ tree \in {[nodes |-> ns, leaves |-> TreeLeaves] : ns \in AnyNodeArrays}
    /\ point = <<>> /\ startNode = 0 /\ treeOut = [op |-> "idle"]
    /\ LoadIdle /\ VisIdle /\ EntIdle
    /\ CallIdle

SpecCycle == InitCycle /\ [][NextTree]_vars

\* C28: every call of find_leaf and of count_vis_leaves returns: none
\* recurses without end (until the stack runs out).
C28_TreeCallsReturn ==
    treeOut.op \in {"find_leaf", "count_vis_leaves"} => treeOut.kind # "overflow"


-----------------------------------------------------------------------------
(* SpecAtlas: a TextureAtlas as TextureAtlas::new builds it, and up to     *)
(* MaxStores calls of store on it.  callIn holds the atlas (the &mut self   *)
(* of the calls), callOut the last call and the rectangles returned so far. *)

MaxAtlas == 3

MaxStores == 2

\* Image::from((width, height, channels)): the data vector is the default
\* one, empty.
ImageFromDims(width, height, channels) ==
    [channels |-> channels, width |-> width, height |-> height, data |-> <<>>]

\* TextureAtlas::new(width, height, channels).
TextureAtlas_new(width, height, channels) ==
    [allocated |-> <<>>, m_image |-> ImageFromDims(width, height, channels)]

\* An image that carries width * height * channels bytes.
FilledImage(width, height, channels) ==
    [channels |-> channels, width |-> width, height |-> height,
     data |-> [k \in 1..(width * height * channels) |-> 1]]

\* The `for j in 0..lm_width` loop of alloc_lightmap from j on, at column i.
RECURSIVE AllocColumns(_, _, _, _, _, _, _)
AllocColumns(allocated, i, j, lm_width, best, best2, j_result) ==
    IF j >= lm_width THEN [kind |-> "ok", best2 |-> best2, j_result |-> j_result]
    ELSE IF i + j >= Len(allocated) THEN [kind |-> "panic", best2 |-> best2, j_result |-> j]
    ELSE IF allocated[i + j + 1] >= best THEN [kind |-> "ok", best2 |-> best2, j_result |-> j]
    ELSE AllocColumns(allocated, i, j + 1, lm_width, best,
                      Max2(best2, allocated[i + j + 1]), j)

\* The `for i in 0..(width - lm_width)` loop of alloc_lightmap from i on;
\* `inner` is the outcome of the inner loop at column i.
RECURSIVE AllocScan(_, _, _, _, _, _)
AllocScanStep(allocated, i, end, lm_width, pos, best, inner) ==
    IF inner.kind = "panic" THEN [kind |-> "panic", pos |-> pos, best |-> best]
    ELSE IF inner.j_result = lm_width
    THEN AllocScan(allocated, i + 1, end, lm_width, <<i, inner.best2>>, inner.best2)
    ELSE AllocScan(allocated, i + 1, end, lm_width, pos, best)

AllocScan(allocated, i, end, lm_width, pos, best) ==
    IF i >= end THEN [kind |-> "ok", pos |-> pos, best |-> best]
    ELSE AllocScanStep(allocated, i, end, lm_width, pos, best,
                       AllocColumns(allocated, i, 0, lm_width, best, 0, 0))

\* What follows the scan: the height test and the marking of the columns
\* (an index past `allocated` panics).
AllocMarked(atlas, lm_width, lm_height, scan) ==
    IF scan.kind = "panic" THEN [kind |-> "panic", cause |-> "index", atlas |-> atlas]
    ELSE IF scan.best + lm_height > atlas.m_image.height
    THEN [kind |-> "none", cause |-> "", atlas |-> atlas]
    ELSE IF lm_width > 0 /\ scan.pos[1] + lm_width > Len(atlas.allocated)
    THEN [kind |-> "panic", cause |-> "index", atlas |-> atlas]
    ELSE [kind |-> "some", cause |-> "", pos |-> scan.pos,
          atlas |-> [atlas EXCEPT !.allocated =
                        [k \in 1..Len(atlas.allocated) |->
                           IF k - 1 \in scan.pos[1]..(scan.pos[1] + lm_width - 1)
                           THEN scan.best + lm_height ELSE atlas.allocated[k]]]]

\* TextureAtlas::alloc_lightmap.  `width - lm_width` on usize: with overflow
\* checks a wider lightmap panics; without them the difference wraps to a
\* range longer than `allocated`, and Len(allocated) + 1 columns of it are
\* all the scan can visit before an index leaves `allocated`.
alloc_lightmap(atlas, lm_width, lm_height, checked) ==
    IF lm_width > atlas.m_image.width /\ checked
    THEN [kind |-> "panic", cause |-> "overflow", atlas |-> atlas]
    ELSE AllocMarked(atlas, lm_width, lm_height,
            AllocScan(atlas.allocated, 0,
                      IF lm_width > atlas.m_image.width THEN Len(atlas.allocated) + 1
                      ELSE atlas.m_image.width - lm_width,
                      lm_width, <<0, 0>>, atlas.m_image.height))

\* The byte offsets the row copy of store reads (src) and writes (dst),
\* in the order of the loops.
CopyOffsets(atlas, image, coord) ==
    [k \in 1..(image.height * image.width * image.channels) |->
        LET y == (k - 1) \div (image.width * image.channels)
            i == (k - 1) % (image.width * image.channels)
        IN [src |-> y * image.width * image.channels + i,
            dst |-> ((coord[2] + y) * atlas.m_image.width + coord[1]) * image.channels + i]]

\* The row copy of store at the position alloc_lightmap returned.
StoreCopied(atlas, image, loc) ==
    LET offs == CopyOffsets(loc.atlas, image, loc.pos) IN
    IF \E k \in 1..Len(offs) : offs[k].src >= Len(image.data) \/ offs[k].dst >= Len(loc.atlas.m_image.data)
    THEN [kind |-> "panic", cause |-> "index", atlas |-> atlas]
    ELSE [kind |-> "ok", cause |-> "", pos |-> loc.pos,
          atlas |-> [loc.atlas EXCEPT !.m_image.data =
                        [d \in 1..Len(loc.atlas.m_image.data) |->
                           IF \E k \in 1..Len(offs) : offs[k].dst = d - 1
                           THEN image.data[offs[CHOOSE k \in 1..Len(offs) : offs[k].dst = d - 1].src + 1]
                           ELSE loc.atlas.m_image.data[d]]]]

StoreAllocated(atlas, image, loc) ==
    IF loc.kind = "panic" THEN loc
    ELSE IF loc.kind = "none" THEN [kind |-> "err", cause |-> "full", atlas |-> loc.atlas]
    ELSE StoreCopied(atlas, image, loc)

\* TextureAtlas::store.
store(atlas, image, checked) ==
    IF image.channels # atlas.m_image.channels
    THEN [kind |-> "err", cause |-> "channels", atlas |-> atlas]
    ELSE StoreAllocated(atlas, image,
                        alloc_lightmap(atlas, image.width, image.height, checked))

AtlasImages ==
    {FilledImage(w, h, c) : w \in 0..(MaxAtlas + 1), h \in 0..(MaxAtlas + 1), c \in {3, 4}}

InitAtlas ==
    /\ callIn \in {[atlas |-> TextureAtlas_new(w, h, 3), checked |-> c] :
                     w \in 1..MaxAtlas, h \in 1..MaxAtlas, c \in BOOLEAN}
    /\ callOut = [op |-> "idle", rects |-> <<>>]
    /\ LoadIdle /\ TreeIdle /\ VisIdle /\ EntIdle

\* atlas.store(&image) on the atlas the earlier stores left.
CallStore ==
    /\ callOut.op = "idle" \/ (callOut.op = "store" /\ callOut.kind # "panic")
    /\ Len(callOut.rects) < MaxStores
    /\ \E image \in AtlasImages :
         LET r == store(callIn.atlas, image, callIn.checked) IN
         /\ callIn' = [callIn EXCEPT !.atlas = r.atlas]
         /\ callOut' = [op |-> "store", kind |-> r.kind, cause |-> r.cause,
                        image |-> [channels |-> image.channels, width |-> image.width,
                                   height |-> image.height],
                        before |-> callIn.atlas,
                        stored |-> Len(callOut.rects),
                        rects |-> IF r.kind = "ok"
                                  THEN Append(callOut.rects,
                                              [x |-> r.pos[1], y |-> r.pos[2],
                                               w |-> image.width, h |-> image.height])
                                  ELSE callOut.rects]
    /\ UNCHANGED <<loadVars, treeVars, visVars, entVars>>

NextAtlas == CallStore

SpecAtlas == InitAtlas /\ [][NextAtlas]_vars

\* Two rectangles share a texel.
Overlap(a, b) ==
    /\ a.x < b.x + b.w /\ b.x < a.x + a.w
    /\ a.y < b.y + b.h /\ b.y < a.y + a.h

\* C30: a store of an image with the atlas's channel count into an atlas
\* that holds nothing yet, of an image no wider and no higher than the
\* atlas, returns a position; the rectangles returned lie inside the atlas
\* and no two of them overlap; a store with another channel count returns
\* an error and leaves the atlas as it was.
C30_StoreReturnsPosition ==
    callOut.op = "store" =>
       /\ (/\ callOut.image.channels = callOut.before.m_image.channels
           /\ callOut.stored = 0
           /\ callOut.image.width <= callOut.before.m_image.width
           /\ callOut.image.height <= callOut.before.m_image.height)
             => callOut.kind = "ok"
       /\ \A k \in 1..Len(callOut.rects) :
             /\ callOut.rects[k].x + callOut.rects[k].w <= callIn.atlas.m_image.width
             /\ callOut.rects[k].y + callOut.rects[k].h <= callIn.atlas.m_image.height
       /\ \A j, k \in 1..Len(callOut.rects) :
             j # k => ~Overlap(callOut.rects[j], callOut.rects[k])
       /\ callOut.image.channels # callOut.before.m_image.channels
             => (callOut.kind = "err" /\ callIn.atlas = callOut.before)

-----------------------------------------------------------------------------
(* SpecRender: BSPRenderable::render on a map held by the renderable, one   *)
(* step per detach, traversal step, leaf and reattach.  `bsp` and `header`  *)
(* are the fields of m_bsp, callIn the arguments and the map as it was      *)
(* before the call, callOut the locals of the call.  The renderer, the      *)
(* camera and the GL buffers are left out: they hold no field of the map.   *)

MaxRenderNodes == 2

\* A BitSet: the bits set and the length of its bit vector.
BitSetDefault == [bits |-> {}, len |-> 0]

BitSetIsEmpty(s) == s.bits = {}

\* What std::mem::take leaves in the place of a Header.
DefaultHeader ==
    [version |-> 0, lump |-> [k \in 1..HeaderLumps |-> [offset |-> 0, length |-> 0]]]

\* The fields render_bsp takes out of the map around render_leaf.
LeafFields == {"leaves", "mark_surfaces", "faces", "header", "texture_infos"}

\* bsp_renderable.rs:411-415: the values taken, and the map without them.
Held(b, h) ==
    [leaves |-> b.leaves, mark_surfaces |-> b.mark_surfaces, faces |-> b.faces,
     header |-> h, texture_infos |-> b.texture_infos]

Detached(b) ==
    [b EXCEPT !.leaves = <<>>, !.mark_surfaces = <<>>, !.faces = <<>>,
              !.texture_infos = <<>>]

\* Mutant of Reattached: the faces are not put back.
ReattachedWithoutFaces(b, held) ==
    [b EXCEPT !.leaves = held.leaves, !.mark_surfaces = held.mark_surfaces,
              !.texture_infos = held.texture_infos]

\* bsp_renderable.rs:429-433 (the header goes back in the same step).
Reattached(b, held) ==
    [b EXCEPT !.leaves = held.leaves, !.mark_surfaces = held.mark_surfaces,
              !.faces = held.faces, !.texture_infos = held.texture_infos]

\* render_leaf from mark surface i on, over the arrays passed by reference;
\* faces_drawn and vertex_offsets are the renderable's own vectors.
RECURSIVE RenderLeafFrom(_, _, _, _, _, _, _)
RenderLeafFrom(held, leaf_index, i, use_textures, drawn, vertex_offsets, pushed) ==
    IF ~InBounds(held.leaves, leaf_index) THEN [kind |-> "panic", drawn |-> drawn, pushed |-> pushed]
    ELSE IF i >= held.leaves[leaf_index + 1].mark_surface_count
    THEN [kind |-> "ok", drawn |-> drawn, pushed |-> pushed]
    ELSE IF ~InBounds(held.mark_surfaces, held.leaves[leaf_index + 1].first_mark_surface + i)
    THEN [kind |-> "panic", drawn |-> drawn, pushed |-> pushed]
    ELSE
    LET face_index == held.mark_surfaces[held.leaves[leaf_index + 1].first_mark_surface + i + 1] IN
    IF ~InBounds(drawn, face_index) THEN [kind |-> "panic", drawn |-> drawn, pushed |-> pushed]
    ELSE IF drawn[face_index + 1]
    THEN RenderLeafFrom(held, leaf_index, i + 1, use_textures, drawn, vertex_offsets, pushed)
    ELSE IF ~InBounds(held.faces, face_index)
    THEN [kind |-> "panic", drawn |-> drawn, pushed |-> pushed]
    ELSE IF held.faces[face_index + 1].styles[1] = 255
    THEN RenderLeafFrom(held, leaf_index, i + 1, use_textures,
                        [drawn EXCEPT ![face_index + 1] = TRUE], vertex_offsets, pushed)
    ELSE IF \/ use_textures
               /\ ~InBounds(held.texture_infos, held.faces[face_index + 1].texture_info)
            \/ ~InBounds(vertex_offsets, face_index)
            \/ held.faces[face_index + 1].edge_count < 2
    THEN [kind |-> "panic", drawn |-> drawn, pushed |-> pushed]
    ELSE RenderLeafFrom(held, leaf_index, i + 1, use_textures,
                        [drawn EXCEPT ![face_index + 1] = TRUE], vertex_offsets, pushed + 1)

render_leaf(held, leaf_index, use_textures, drawn, vertex_offsets) ==
    RenderLeafFrom(held, leaf_index, 0, use_textures, drawn, vertex_offsets, 0)

\* render_bsp on a node: the side of the plane the camera is on (1 for the
\* front), or -1 when an index leaves `nodes` or `planes`.
RenderSide(b, node, pos) ==
    IF ~InBounds(b.nodes, node) \/ ~InBounds(b.planes, b.nodes[node + 1].plane_index)
    THEN -1
    ELSE LET plane == b.planes[b.nodes[node + 1].plane_index + 1]
             dist == IF plane.type \in 0..2 THEN pos[plane.type + 1] - plane.dist
                     ELSE Dot(plane.normal, pos) - plane.dist
         IN IF dist > 0 THEN 1 ELSE 0

\* render_static_geometry's choice of the visibility list: the row of the
\* camera's leaf, or a fresh BitSet; `leaf as usize - 1` with leaf 0
\* underflows or indexes far out of the lists.
StaticRow(found, vis_list) ==
    IF found.kind \in {"panic", "overflow"} THEN [kind |-> "panic", row |-> BitSetDefault]
    ELSE IF found.kind = "none" \/ vis_list = <<>> THEN [kind |-> "ok", row |-> BitSetDefault]
    ELSE IF ~InBounds(vis_list, found.leaf - 1) THEN [kind |-> "panic", row |-> BitSetDefault]
    ELSE [kind |-> "ok", row |-> vis_list[found.leaf]]

\* The index of `models` a brush entity names: the text after the first
\* character of its `model` property, parsed.
BrushModel(entity) ==
    LET v == find_property(entity, StrModel) IN
    IF v = NoValue \/ v = <<>> \/ ~ParseUsize(Tail(v)).ok THEN -1
    ELSE ParseUsize(Tail(v)).n

\* The fields of the map each part of render reads through self.m_bsp.
FindLeafReads == {"nodes", "leaves"}
RenderBspReads == {"nodes", "planes"}
RenderLeafReads == {}
BrushReads == {"brush_entities", "entities", "models"}

RenderLeaves(count) ==
    <<MkLeaf(ContentsSolid, BoxA),
      [MkLeaf(ContentsEmpty, BoxA) EXCEPT !.mark_surface_count = count]>>

RenderChild(i, n) == {-1, -2} \cup ((i + 1)..(n - 1))

RenderNodeArrays ==
    UNION {{ns \in [1..n -> {MkNode(<<a, b>>, BoxA) : a \in RenderChild(0, n), b \in RenderChild(0, n)}] :
              \A i \in 1..n : /\ ns[i].child_index[1] \in RenderChild(i - 1, n)
                              /\ ns[i].child_index[2] \in RenderChild(i - 1, n)}
           : n \in 1..MaxRenderNodes}

\* No lists (what from_file leaves), a list for leaf 1 that names leaf 1,
\* and a list with no bit set.
RenderVisLists ==
    {<<>>, <<[bits |-> {0}, len |-> 8]>>, <<[bits |-> {}, len |-> 8]>>}

RenderEntities ==
    {<<>>, <<MkEntity(<<102, 117, 110, 99, 95, 119, 97, 108, 108>>, <<42, 49>>, NoValue, NoValue)>>}

RenderHeader ==
    [version |-> BspVersion,
     lump |-> [k \in 1..HeaderLumps |->
                 [offset |-> 0, length |-> IF k = LumpLighting + 1 THEN 3 ELSE 0]]]

RenderMap(ns, count, vis, es) ==
    [EmptyBsp EXCEPT !.nodes = ns, !.leaves = RenderLeaves(count),
                     !.planes = <<Plane(<<1, 0, 0, 2, 0>>)>>,
                     !.mark_surfaces = <<0>>,
                     !.faces = <<FaceOf(0, 3, 0, 0, 0)>>,
                     !.texture_infos = <<TextureInfo(<<1, 0, 0, 0, 0, 1, 0, 0, 0, 0>>)>>,
                     !.vis_lists = vis, !.entities = es,
                     !.brush_entities = [k \in 1..Len(es) |-> k - 1]]

\* BSPRenderable::new leaves faces_drawn (a capacity, no length) and
\* vertex_offsets empty (bsp_renderable.rs:147, 158).
InitRender ==
    /\ bsp \in {RenderMap(ns, count, vis, es) :
                  ns \in RenderNodeArrays, count \in 0..1, vis \in RenderVisLists,
                  es \in RenderEntities}
    /\ header = RenderHeader
    /\ callIn \in {[before |-> [bsp |-> bsp, header |-> RenderHeader], pos |-> p,
                    render_static_bsp |-> st, render_brush_entities |-> br,
                    use_textures |-> tx, faces_drawn |-> <<>>, vertex_offsets |-> <<>>] :
                     p \in {<<1, 1, 1>>, <<4, 3, 4>>}, st \in BOOLEAN, br \in BOOLEAN,
                     tx \in BOOLEAN}
    /\ callOut = [op |-> "idle"]
    /\ file = <<>> /\ env = NoEnv /\ pc = "Ready" /\ result = "ok" /\ cause = ""
    /\ history = <<>>
    /\ TreeIdle /\ VisIdle /\ EntIdle

RenderLocals(op, stack, row, vis_list, k, drawn, stale) ==
    [op |-> op, stack |-> stack, row |-> row, vis_list |-> vis_list, held |-> <<>>,
     leaf |-> 0, k |-> k, drawn |-> drawn, leaves_drawn |-> 0, stale |-> stale]

\* render up to the first render_bsp call: faces_drawn is reset, and for the
\* static pass vis_lists is taken, the camera's leaf looked up through the
\* map and the visibility list chosen.
CallRender ==
    /\ callOut.op = "idle"
    /\ LET drawn == [k \in 1..Len(callIn.faces_drawn) |-> FALSE]
           taken == [bsp EXCEPT !.vis_lists = <<>>]
           chosen == StaticRow(find_leaf(taken.nodes, taken.leaves, callIn.pos, 0),
                               bsp.vis_lists)
       IN
       IF callIn.render_static_bsp
       THEN /\ bsp' = taken
            /\ callOut' = RenderLocals(IF chosen.kind = "ok" THEN "static" ELSE "panic",
                                       <<0>>, chosen.row, bsp.vis_lists, 0, drawn,
                                       FindLeafReads \cap {"vis_lists"} # {})
       ELSE /\ bsp' = bsp
            /\ callOut' = RenderLocals("brush", <<>>, BitSetDefault, <<>>, 0, drawn, FALSE)
    /\ UNCHANGED <<callIn, file, env, pc, header, result, cause, history,
                   treeVars, visVars, entVars>>

\* The fields out of the map while the locals are as they are.
DetachedNow ==
    (IF callOut.op = "static" THEN {"vis_lists"} ELSE {})
       \cup (IF callOut.held # <<>> THEN LeafFields ELSE {})

\* One call of render_bsp up to its recursive calls or to render_leaf: the
\* node on top of the stack of pending calls.
RenderBspStep ==
    /\ callOut.op \in {"static", "brush"} /\ callOut.stack # <<>> /\ callOut.held = <<>>
    /\ LET node == Head(callOut.stack)
           rest == Tail(callOut.stack)
           leaf == BitNot(node)
           side == RenderSide(bsp, node, callIn.pos)
       IN
       IF node = -1
       THEN /\ callOut' = [callOut EXCEPT !.stack = rest]
            /\ UNCHANGED <<bsp, header>>
       ELSE IF node < 0
       THEN IF BitSetIsEmpty(callOut.row) /\ leaf - 1 >= callOut.row.len
            THEN /\ callOut' = [callOut EXCEPT !.op = "panic"]
                 /\ UNCHANGED <<bsp, header>>
            ELSE IF BitSetIsEmpty(callOut.row) /\ (leaf - 1) \notin callOut.row.bits
            THEN /\ callOut' = [callOut EXCEPT !.stack = rest]
                 /\ UNCHANGED <<bsp, header>>
            ELSE /\ callOut' = [callOut EXCEPT !.held = Held(bsp, header), !.leaf = leaf]
                 /\ bsp' = Detached(bsp)
                 /\ header' = DefaultHeader
       ELSE /\ callOut' =
                 IF side = -1 THEN [callOut EXCEPT !.op = "panic"]
                 ELSE [callOut EXCEPT
                         !.stack = <<bsp.nodes[node + 1].child_index[side + 1],
                                     bsp.nodes[node + 1].child_index[2 - side]>> \o rest,
                         !.stale = @ \/ (RenderBspReads \cap DetachedNow # {})]
            /\ UNCHANGED <<bsp, header>>
    /\ UNCHANGED <<callIn, file, env, pc, result, cause, history,
                   treeVars, visVars, entVars>>

\* render_leaf on the arrays taken, and their return to the map.
RenderLeafStep ==
    /\ callOut.op \in {"static", "brush"} /\ callOut.held # <<>>
    /\ LET r == render_leaf(callOut.held, callOut.leaf,
                            IF callOut.op = "static" THEN TRUE ELSE callIn.use_textures,
                            callOut.drawn, callIn.vertex_offsets)
       IN
       IF r.kind = "panic"
       THEN /\ callOut' = [callOut EXCEPT !.op = "panic"]
            /\ UNCHANGED <<bsp, header>>
       ELSE /\ callOut' = [callOut EXCEPT !.stack = Tail(@), !.held = <<>>,
                                          !.drawn = r.drawn,
                                          !.leaves_drawn = @ + 1,
                                          !.stale = @ \/ (RenderLeafReads \cap DetachedNow # {})]
            /\ bsp' = Reattached(bsp, callOut.held)
            /\ header' = callOut.held.header
    /\ UNCHANGED <<callIn, file, env, pc, result, cause, history,
                   treeVars, visVars, entVars>>

\* The static pass is over: vis_lists goes back into the map.
RenderStaticEnd ==
    /\ callOut.op = "static" /\ callOut.stack = <<>>
    /\ bsp' = [bsp EXCEPT !.vis_lists = callOut.vis_list]
    /\ callOut' = [callOut EXCEPT !.op = "brush", !.vis_list = <<>>]
    /\ UNCHANGED <<callIn, file, env, pc, header, result, cause, history,
                   treeVars, visVars, entVars>>

\* The loop over brush_entities between two render_bsp calls, and the end
\* of render.
RenderBrushNext ==
    /\ callOut.op = "brush" /\ callOut.stack = <<>>
    /\ LET k == callOut.k
           model == BrushModel(bsp.entities[bsp.brush_entities[k + 1] + 1])
       IN
       callOut' =
          IF ~callIn.render_brush_entities \/ k >= Len(bsp.brush_entities)
          THEN [callOut EXCEPT !.op = "done"]
          ELSE IF ~InBounds(bsp.entities, bsp.brush_entities[k + 1])
                  \/ ~InBounds(bsp.models, model)
          THEN [callOut EXCEPT !.op = "panic"]
          ELSE [callOut EXCEPT !.stack = <<bsp.models[model + 1].model.head_nodes_index[1]>>,
                               !.row = BitSetDefault, !.k = k + 1,
                               !.stale = @ \/ (BrushReads \cap DetachedNow # {})]
    /\ UNCHANGED <<callIn, file, env, pc, header, bsp, result, cause, history,
                   treeVars, visVars, entVars>>

NextRender ==
    \/ CallRender
    \/ RenderBspStep
    \/ RenderLeafStep
    \/ RenderStaticEnd
    \/ RenderBrushNext

SpecRender == InitRender /\ [][NextRender]_vars

\* C27: during render no field of the map is read through the map while it
\* is taken out of it; every field other than vis_lists and the five arrays
\* of render_bsp has at every step the value it had before the call, a
\* field that is taken out at the moment is empty and every other one has
\* its value of before; and after a completed call the whole map, header
\* included, is what it was before the call.
C27_RenderRestoresMap ==
    callOut.op \in {"static", "brush", "done", "panic"} =>
       /\ ~callOut.stale
       /\ \A f \in DOMAIN bsp :
             IF f \in DetachedNow THEN bsp[f] = <<>>
             ELSE callOut.op # "panic" => bsp[f] = callIn.before.bsp[f]
       /\ (callOut.op # "panic" /\ "header" \notin DetachedNow) => header = callIn.before.header
       /\ callOut.op = "done" => (bsp = callIn.before.bsp /\ header = callIn.before.header)

\* A render of the static geometry has ended on a map with visibility
\* lists, after a leaf went through render_leaf.
C27_Witness ==
    /\ callOut.op = "done"
    /\ callIn.render_static_bsp
    /\ callIn.before.bsp.vis_lists # <<>>
    /\ callOut.leaves_drawn > 0

=============================================================================
